---- MODULE Spec2Model ----
(***************************************************************************)
(* A model of the shell's line cycle: main() hands the tokens of one line  *)
(* to parseTokens, passes the result to executeCommandChain and then to    *)
(* cleanUpCommandChain.  parseTokens is modelled token by token, the       *)
(* executor stage by stage.  C strings are sequences of one-character      *)
(* strings; the descriptor table, the heap of CommandChain / Command /     *)
(* SimpleCommand structures and the files of the working directory are     *)
(* part of the state.                                                      *)
(***************************************************************************)
EXTENDS Integers, Sequences, FiniteSets, TLC

(***************************************************************************)
(* Bounds of the model.                                                    *)
(***************************************************************************)
\* longest line, in tokens, over the whole token vocabulary
MaxTokens == 4
\* longest line, in tokens, over the pipeline vocabulary (names, `|`, `;`)
MaxPipeTokens == 5
\* longest line, in tokens, over the history vocabulary
MaxHistoryTokens == 4
\* deepest nesting of line cycles the history builtin is followed into
MaxDepth == 2
\* the units of data a pipe buffers before a write to it blocks
PipeCapacity == 1
\* the most child processes one line forks
MaxChildren == 3
\* the longest line with patterns, in tokens
MaxGlobTokens == 3
\* the longest line typed character by character
MaxInputLength == 4

(***************************************************************************)
(* Program constants.                                                      *)
(***************************************************************************)
MAX_STRING_LENGTH == 1024
STDIN_FD == 0
STDOUT_FD == 1
STDERR_FD == 2

\* the NULL char*; no C string equals it (its element is not one character)
NullStr == <<"NULL">>

(***************************************************************************)
(* The token vocabulary.                                                   *)
(***************************************************************************)
TokPipe == <<"|">>
TokOut == <<">">>
TokAppend == <<">", ">">>
TokIn == <<"<">>
TokErr == <<"2", ">">>
TokSemi == <<";">>
TokAmp == <<"&">>
TokEmpty == <<>>
\* an external program; no file of this name exists in the working directory
NameA == <<"a">>
\* a builtin
NamePwd == <<"p", "w", "d">>
\* a file that exists in the working directory
NameF == <<"f">>
\* an external program that reads its standard input to end-of-file
NameB == <<"b">>
\* a name execvp finds no program for
NameX == <<"x">>
\* the history builtin and arguments for it: two indices and a prefix
\* patterns: every file, the files in f, the files in z (none), one character
PatAll == <<"*">>
PatF == <<"f", "*">>
PatZ == <<"z", "*">>
PatOne == <<"?">>
Tilde == <<"~">>
\* a second file name, and what `~` expands to
NameFA == <<"f", "a">>
HomeDir == <<"/", "h">>
\* quoted words
QuotedA == <<"\"", "a", "\"">>
QuotedF == <<"'", "f", "'">>
NameHistory == <<"h", "i", "s", "t", "o", "r", "y">>
Idx1 == <<"1">>
Idx9 == <<"9">>
PrefixP == <<"p">>
\* history-bang tokens: an index, a prefix, a pattern, a quoted word, a lone `!`
Bang1 == <<"!", "1">>
BangP == <<"!", "p">>
BangF == <<"!", "f", "*">>
BangQ == <<"!", "\"", "a", "\"">>
BangOnly == <<"!">>
\* the index before the first line of the history, alone and in a bang token
Idx0 == <<"0">>
Bang0 == <<"!", "0">>

Vocabulary ==
  {TokPipe, TokOut, TokAppend, TokIn, TokErr, TokSemi, TokAmp, TokEmpty,
   NameA, NamePwd, NameF}

PipeVocabulary == {NameA, NamePwd, TokPipe, TokSemi}

HistoryVocabulary == {NameHistory, Idx1, Idx9, PrefixP, TokOut, NameF}

GlobVocabulary ==
  {PatAll, PatF, PatZ, PatOne, Tilde, NameA, NameF,
   TokPipe, TokOut, TokIn, TokErr, TokSemi, TokEmpty}

SeqsUpTo(S, n) == UNION {[1..k -> S] : k \in 1..n}

\* the tokens of a line joined by the delimiter: the line as it was typed
RECURSIVE Join(_, _)
Join(toks, delimiter) ==
  IF toks = <<>> THEN <<>>
  ELSE IF Len(toks) = 1 THEN toks[1]
  ELSE toks[1] \o <<delimiter>> \o Join(Tail(toks), delimiter)

\* main skips the empty line and leaves its loop at the line `exit`
MainParses(input) == input # <<>> /\ input # <<"e", "x", "i", "t">>

\* the lines typed when nothing was typed before them
QuotedLines ==
  {<<QuotedA>>, <<QuotedA, QuotedF>>, <<QuotedA, TokPipe, QuotedF>>,
   <<QuotedA, TokOut>>, <<QuotedA, TokPipe, TokPipe>>, <<QuotedA, TokSemi, QuotedF, TokIn>>}

\* lines with a `!` token: first of a SimpleCommand, after the command name,
\* behind operators and empty tokens
BangLines ==
  {<<BangP>>, <<Bang1>>, <<BangF>>, <<BangQ>>, <<BangOnly>>, <<NameA, BangP>>,
   <<BangOnly, BangP>>, <<BangP, NameA>>, <<TokEmpty, BangF, PatF>>,
   <<NameA, TokPipe, BangQ>>, <<NameA, TokSemi, BangP>>, <<TokOut, NameF, BangP>>}

\* pipelines with redirections at their ends and in their middle
PipeRedirLines ==
  {<<NameA, TokIn, NameF, TokPipe, NameA, TokOut, NameF>>,
   <<NameA, TokPipe, NameA, TokIn, NameF>>,
   <<NameA, TokOut, NameF, TokPipe, NameA>>,
   <<NameA, TokPipe, NameA, TokAppend, NameF>>,
   <<NameA, TokPipe, NamePwd, TokPipe, NameA, TokIn, NameF>>,
   <<NameA, TokErr, NameF, TokPipe, NameA>>,
   <<NameA, TokSemi, NameA, TokIn, NameX>>,
   <<NameA, TokOut, NameF, TokSemi, NameA, TokIn, NameX, TokSemi, NameA>>}

\* the names of the command registry as command names and as arguments
NameCd == <<"c", "d">>
NameExit == <<"e", "x", "i", "t">>
NamePrompt == <<"p", "r", "o", "m", "p", "t">>
BuiltinLines ==
  {<<NameCd>>, <<NameExit, NameA>>, <<NamePrompt, NameA>>, <<NamePwd>>, <<NameHistory>>,
   <<NameA, NameCd>>, <<NameCd, TokPipe, NameExit, TokPipe, NamePrompt>>,
   <<NamePwd, TokSemi, NameHistory, TokAmp, NameA>>, <<QuotedA, NamePwd>>}

\* lines that ask the history for the index 0
IndexZeroLines == {<<NameHistory, Idx0>>, <<Bang0>>, <<NameA, TokSemi, NameHistory, Idx0>>}

Lines ==
  {l \in SeqsUpTo(Vocabulary, MaxTokens) \cup SeqsUpTo(PipeVocabulary, MaxPipeTokens)
          \cup QuotedLines \cup BangLines \cup IndexZeroLines \cup PipeRedirLines :
     MainParses(Join(l, " "))}

\* the lines typed after a few earlier ones
HistoryLines ==
  {l \in SeqsUpTo(HistoryVocabulary, MaxHistoryTokens) \cup BangLines \cup IndexZeroLines :
     MainParses(Join(l, " "))}

\* what was typed before the line: nothing, a builtin, an external command
PriorHistories == {<<>>, <<NamePwd>>, <<NameA>>}

\* exit codes a child process may report to waitpid
ExitCodes == {0, 1}

(***************************************************************************)
(* parser.h: the token classes.                                            *)
(***************************************************************************)
IS_CHAINING_OPERATOR(token) == token = TokAmp \/ token = TokSemi
\* every operator taken for `&`
IS_BACKGROUNDAny(token) == token # NullStr

IS_BACKGROUND(token) == token # NullStr /\ token = TokAmp
IS_PIPE(token) == token = TokPipe
IS_FILE_OUT_REDIR(token) == token = TokOut \/ token = TokAppend
IS_FILE_IN_REDIR(token) == token = TokIn
IS_STDERR_REDIR(token) == token = TokErr
IS_NULL(token) == token = NullStr
IGNORE(token) ==
  /\ token # NullStr
  /\ (token = <<" ">> \/ token = <<"\t">> \/ token = <<"\n">> \/ token = <<>>)
\* `>>` taken for `>`
IS_APPENDNever(token) == FALSE

IS_APPEND(token) == token = TokAppend

Min(a, b) == IF a < b THEN a ELSE b

\* utils.h: strndup of at most MAX_STRING_LENGTH characters, NULL for NULL
COPY(str) ==
  IF str = NullStr THEN NullStr ELSE SubSeq(str, 1, Min(Len(str), MAX_STRING_LENGTH))

\* utils.c: the input split at every delimiter that is outside quotes
RECURSIVE tokenizeFrom(_, _, _, _, _)
tokenizeFrom(input, delimiter, i, token_start, inside_quotes) ==
  IF i > Len(input) THEN <<SubSeq(input, token_start, Len(input))>>
  ELSE IF input[i] = delimiter /\ ~inside_quotes
    THEN <<SubSeq(input, token_start, i - 1)>>
           \o tokenizeFrom(input, delimiter, i + 1, i + 1, inside_quotes)
  ELSE IF input[i] = "\"" \/ input[i] = "'"
    THEN tokenizeFrom(input, delimiter, i + 1, token_start, ~inside_quotes)
  ELSE tokenizeFrom(input, delimiter, i + 1, token_start, inside_quotes)

\* a tokenizer that takes the text before the first quote for quoted
tokenizeStringInverted(input, delimiter) == tokenizeFrom(input, delimiter, 1, 1, TRUE)

tokenizeString(input, delimiter) == tokenizeFrom(input, delimiter, 1, 1, FALSE)

\* tokenizeString allocates strlen(input) slots and writes one token more than
\* that when every character of the input is a delimiter
tokenizeOverflows(input, delimiter) == Len(tokenizeString(input, delimiter)) > Len(input)

\* utils.c: one layer of surrounding quotes is stripped
removeQuotes(inputString) ==
  LET inputLength == Len(inputString) IN
  IF inputLength < 2 THEN inputString
  ELSE IF \/ (inputString[1] = "\"" /\ inputString[inputLength] = "\"")
          \/ (inputString[1] = "'" /\ inputString[inputLength] = "'")
       THEN SubSeq(inputString, 2, inputLength - 1)
       ELSE inputString

\* the registry without its last entry
getExecutionFunctionShort(commandName) ==
  IF commandName = <<"c", "d">> THEN "cd"
  ELSE IF commandName = <<"p", "w", "d">> THEN "pwd"
  ELSE IF commandName = <<"e", "x", "i", "t">> THEN "exitShell"
  ELSE IF commandName = <<"h", "i", "s", "t", "o", "r", "y">> THEN "history"
  ELSE "executeProcess"

\* the builtin registry; every other name runs as an external process
getExecutionFunction(commandName) ==
  IF commandName = <<"c", "d">> THEN "cd"
  ELSE IF commandName = <<"p", "w", "d">> THEN "pwd"
  ELSE IF commandName = <<"e", "x", "i", "t">> THEN "exitShell"
  ELSE IF commandName = <<"h", "i", "s", "t", "o", "r", "y">> THEN "history"
  ELSE IF commandName = <<"p", "r", "o", "m", "p", "t">> THEN "prompt"
  ELSE "executeProcess"

(***************************************************************************)
(* The history list: the lines main appended, oldest first.                *)
(***************************************************************************)
Digits == <<"0", "1", "2", "3", "4", "5", "6", "7", "8", "9">>

\* strspn(str, "0123456789") == strlen(str)
IsAllDigits(str) == \A k \in DOMAIN str : \E d \in DOMAIN Digits : Digits[d] = str[k]

DigitValue(c) == (CHOOSE d \in DOMAIN Digits : Digits[d] = c) - 1

\* atoi of a string of digits that fits an int
RECURSIVE atoi(_)
atoi(str) ==
  IF str = <<>> THEN 0
  ELSE 10 * atoi(SubSeq(str, 1, Len(str) - 1)) + DigitValue(str[Len(str)])

\* what a read through a NULL pointer returns: the process is killed instead
Fault == <<"SIGSEGV">>

\* the loop walks until ctr = index; for index 0 it walks off the list and
\* `curr->command` reads through NULL
get_command(list, index) ==
  IF index > Len(list) \/ list = <<>> THEN NullStr
  ELSE IF index = 0 THEN Fault
  ELSE list[index]

IsPrefix(prefix, str) ==
  Len(prefix) <= Len(str) /\ SubSeq(str, 1, Len(prefix)) = prefix

\* the last line that starts with the prefix, NULL if there is none
find_last_command_with_prefix(list, prefix) ==
  IF list = <<>> \/ prefix = NullStr THEN NullStr
  ELSE LET matching == {k \in DOMAIN list : IsPrefix(prefix, list[k])} IN
       IF matching = {} THEN NullStr
       ELSE list[CHOOSE k \in matching : \A j \in matching : j <= k]

\* add_to_history: a copy of the line is appended
add_to_history(list, line) == IF line = NullStr THEN list ELSE Append(list, COPY(line))

(***************************************************************************)
(* command.h / command.c: the entities and their mutators.  A structure    *)
(* carries the heap identifier it was allocated under; identifier 0 is the *)
(* NULL pointer.                                                           *)
(***************************************************************************)
initSimpleCommand(id) ==
  [id |-> id, commandName |-> NullStr, args |-> <<>>, argc |-> 0,
   inputFD |-> STDIN_FD, outputFD |-> STDOUT_FD, stderrFD |-> STDERR_FD,
   noWait |-> 0, execute |-> "NULL", pid |-> -1]

NullSimpleCommand == initSimpleCommand(0)

initCommand(id) ==
  [id |-> id, simpleCommands |-> <<>>, nSimpleCommands |-> 0,
   background |-> FALSE, chainingOperator |-> NullStr]

initCommandChain(id) == [id |-> id, commands |-> <<>>]

addCommandToChain(ch, cmd) == [ch EXCEPT !.commands = Append(@, cmd)]

\* the SimpleCommand is stored but nSimpleCommands is not incremented
addSimpleCommandNoCount(cmd, sc) ==
  IF sc.id = 0 THEN cmd ELSE [cmd EXCEPT !.simpleCommands = Append(@, sc)]

addSimpleCommand(cmd, sc) ==
  IF sc.id = 0 THEN cmd
  ELSE [cmd EXCEPT !.simpleCommands = Append(@, sc), !.nSimpleCommands = @ + 1]

pushArgs(arg, sc) ==
  [sc EXCEPT !.args = Append(@, COPY(arg)),
             !.argc = @ + 1,
             !.commandName = IF sc.argc = 0 THEN COPY(arg) ELSE @]

\* pushArgs when a strndup of COPY may return NULL: the result is stored unchecked
pushArgsCopying(arg, sc, argCopied, nameCopied) ==
  [sc EXCEPT !.args = Append(@, IF argCopied THEN COPY(arg) ELSE NullStr),
             !.argc = @ + 1,
             !.commandName = IF sc.argc = 0
                               THEN (IF nameCopied THEN COPY(arg) ELSE NullStr)
                               ELSE @]

\* fnmatch of a pattern made of `*`, `?` and ordinary characters
RECURSIVE fnmatch(_, _)
fnmatch(pattern, name) ==
  IF pattern = <<>> THEN name = <<>>
  ELSE IF Head(pattern) = "*"
    THEN fnmatch(Tail(pattern), name) \/ (name # <<>> /\ fnmatch(pattern, Tail(name)))
  ELSE /\ name # <<>>
       /\ (Head(pattern) = "?" \/ Head(pattern) = Head(name))
       /\ fnmatch(Tail(pattern), Tail(name))

\* the entries of the working directory among the files
InWorkingDir(files) == {n \in DOMAIN files : \A k \in DOMAIN n : n[k] # "/"}

\* the entries of the working directory a pattern without `/` matches
Matches(pattern, files) == {n \in InWorkingDir(files) : fnmatch(pattern, n)}

\* the characters of the names, in the order of their codes
Collation ==
  <<"!", "\"", "&", "'", "*", "/", "0", "1", "2", "9", ";", "<", ">", "?", "a", "b", "d", "f", "h", "i",
    "o", "p", "r", "s", "t", "w", "x", "y", "z", "|", "~">>
Code(c) == CHOOSE k \in DOMAIN Collation : Collation[k] = c

\* strcmp(a, b) < 0
RECURSIVE Before(_, _)
Before(a, b) ==
  IF b = <<>> THEN FALSE
  ELSE IF a = <<>> THEN TRUE
  ELSE IF Head(a) = Head(b) THEN Before(Tail(a), Tail(b))
  ELSE Code(Head(a)) < Code(Head(b))

\* gl_pathv is sorted
RECURSIVE SortNames(_)
SortNames(names) ==
  IF names = {} THEN <<>>
  ELSE LET first == CHOOSE n \in names : \A m \in names \ {n} : Before(n, m)
       IN <<first>> \o SortNames(names \ {first})

\* glob without GLOB_NOCHECK: nothing for a pattern that matches nothing
globNoMatchEmpty(pattern, files) ==
  IF pattern = Tilde THEN <<HomeDir>> ELSE SortNames(Matches(pattern, files))

\* glob(pattern, GLOB_NOCHECK | GLOB_TILDE, NULL, &globbuf) == 0, for a pattern
\* of `*`, `?` and ordinary characters without `/`, or `~` alone: the sorted
\* matches, the pattern itself when there is none, the home directory for `~`
glob(pattern, files) ==
  IF pattern = Tilde THEN <<HomeDir>>
  ELSE IF Matches(pattern, files) = {} THEN <<pattern>>
  ELSE SortNames(Matches(pattern, files))

RECURSIVE pushAll(_, _)
pushAll(paths, sc) ==
  IF paths = <<>> THEN sc ELSE pushAll(Tail(paths), pushArgs(Head(paths), sc))

\* the pushes of gl_pathv when the copies of push k fail as given
RECURSIVE pushAllFailingAt(_, _, _, _, _)
pushAllFailingAt(paths, sc, k, argCopied, nameCopied) ==
  IF paths = <<>> THEN sc
  ELSE pushAllFailingAt(Tail(paths),
                        IF k = 1 THEN pushArgsCopying(Head(paths), sc, argCopied, nameCopied)
                                 ELSE pushArgs(Head(paths), sc),
                        k - 1, argCopied, nameCopied)

(***************************************************************************)
(* The structures each clean-up function passes to free(), in order.       *)
(***************************************************************************)
cleanUpSimpleCommand(sc) == IF sc.id = 0 THEN <<>> ELSE <<sc.id>>

RECURSIVE cleanUpSimpleCommands(_)
cleanUpSimpleCommands(scs) ==
  IF scs = <<>> THEN <<>>
  ELSE cleanUpSimpleCommand(Head(scs)) \o cleanUpSimpleCommands(Tail(scs))

\* frees the SimpleCommands of the Command, not the Command itself
cleanUpCommand(cmd) ==
  IF cmd.id = 0 THEN <<>> ELSE cleanUpSimpleCommands(cmd.simpleCommands)

RECURSIVE cleanUpCommands(_)
cleanUpCommands(cmds) ==
  IF cmds = <<>> THEN <<>>
  ELSE cleanUpCommand(Head(cmds)) \o <<Head(cmds).id>> \o cleanUpCommands(Tail(cmds))

cleanUpCommandChain(ch) ==
  IF ch.id = 0 THEN <<>> ELSE cleanUpCommands(ch.commands) \o <<ch.id>>

(***************************************************************************)
(* The strings each clean-up function passes to free().  A string block is *)
(* a token, or the copy (COPY) stored in one slot of one structure.        *)
(***************************************************************************)
TokenBlock(n) == [kind |-> "token", owner |-> n, slot |-> 0]
ArgBlock(sc, k) == [kind |-> "args", owner |-> sc.id, slot |-> k]
NameBlock(sc) == [kind |-> "commandName", owner |-> sc.id, slot |-> 0]
OperatorBlock(cmd) == [kind |-> "chainingOperator", owner |-> cmd.id, slot |-> 0]

\* cleanUpSimpleCommand: free(commandName), free(args[i]) for every i < argc
cleanUpSimpleCommandStrings(sc) ==
  IF sc.id = 0 THEN <<>>
  ELSE (IF sc.commandName # NullStr THEN <<NameBlock(sc)>> ELSE <<>>)
         \o [k \in 1..sc.argc |-> ArgBlock(sc, k)]

RECURSIVE cleanUpSimpleCommandsStrings(_)
cleanUpSimpleCommandsStrings(scs) ==
  IF scs = <<>> THEN <<>>
  ELSE cleanUpSimpleCommandStrings(Head(scs)) \o cleanUpSimpleCommandsStrings(Tail(scs))

\* cleanUpCommand: its SimpleCommands, then free(chainingOperator) if not NULL
cleanUpCommandStrings(cmd) ==
  IF cmd.id = 0 THEN <<>>
  ELSE cleanUpSimpleCommandsStrings(cmd.simpleCommands)
         \o (IF cmd.chainingOperator # NullStr THEN <<OperatorBlock(cmd)>> ELSE <<>>)

RECURSIVE cleanUpCommandsStrings(_)
cleanUpCommandsStrings(cmds) ==
  IF cmds = <<>> THEN <<>>
  ELSE cleanUpCommandStrings(Head(cmds)) \o cleanUpCommandsStrings(Tail(cmds))

cleanUpCommandChainStrings(ch) ==
  IF ch.id = 0 THEN <<>> ELSE cleanUpCommandsStrings(ch.commands)

\* freeTokens: free(tokens[i]) up to the NULL slot
freeTokens(tokenIds) == [k \in DOMAIN tokenIds |-> TokenBlock(tokenIds[k])]

\* the replaced token is lost: tokens[i] keeps pointing at the freed block
StoreTokenDropped(tokenIds, i, block) == tokenIds

\* `tokens[currentIndexInTokens] = removeQuotes(tokens[currentIndexInTokens]);`
StoreToken(tokenIds, i, block) == [tokenIds EXCEPT ![i] = block]

FreeStrings(sh, blocks) == [sh EXCEPT !.freed = @ \o blocks]

(***************************************************************************)
(* The state.                                                              *)
(***************************************************************************)
VARIABLES
  tokens,         \* the token array of the line (parseTokens rewrites it in place)
  idx,            \* currentIndexInTokens, 1-based; Len(tokens) + 1 is the NULL slot
  pc,             \* where the control process is in main's cycle
  chain,          \* parseTokens: the CommandChain under construction / returned
  command,        \* parseTokens: the Command under construction (id 0: none)
  simpleCommand,  \* parseTokens: the SimpleCommand under construction (id 0: none)
  commandChain,   \* main: the pointer parseTokens returned ("unset", "chain", "NULL")
  parseErr,       \* the message parseTokens logged when it gave up ("" if none)
  heap,           \* every structure malloc'ed so far and how often it was free'd
  fdTable,        \* the control process's open descriptors and what they refer to
  fs,             \* the files of the working directory and their content
  pipes,          \* the descriptor pairs pipe() returned, in order
  openedFDs,      \* the descriptors pipe() and open() returned during the parse
  closeLog,       \* the descriptors the control process passed to close(), in order
  shellState,     \* globalShellState: the saved standard-stream descriptors
  cmdIdx,         \* executeCommandChain: position of `command` in the chain
  scIdx,          \* executeCommand: the loop index i (1-based)
  invoked,        \* the handler invocations so far: Command, stage, handler, status
  executed,       \* the executeCommand calls that returned: Command, status
  lastStatus,     \* executeCommandChain: lastStatus
  status,         \* main: what executeCommandChain returned ("unset" before)
  nextPid,        \* the process identifier the next fork returns
  history,        \* globalShellState->history: the lines appended so far
  stack,          \* the line cycles suspended in the history builtin, innermost first
  procs,          \* the child processes forked so far, in fork order
  sigPending,     \* a SIGCHLD is pending for the control process
  pipeBuf,        \* for every pipe created so far, the units of data it buffers
  strHeap         \* the string blocks: the block of every token of the line
                  \* (tokenIds), how many token blocks were allocated (nTokens),
                  \* the blocks passed to free(), in order (freed)

vars ==
  <<tokens, idx, pc, chain, command, simpleCommand, commandChain, parseErr, heap,
    fdTable, fs, pipes, openedFDs, closeLog, shellState, cmdIdx, scIdx, invoked,
    executed, lastStatus, status, nextPid, history, stack, procs, sigPending,
    pipeBuf, strHeap>>

parseVars == <<tokens, idx, chain, command, simpleCommand, commandChain, parseErr>>
osVars == <<fdTable, fs, pipes, openedFDs, closeLog, shellState, nextPid>>
execVars == <<cmdIdx, scIdx, invoked, executed, lastStatus, status>>
histVars == <<history, stack>>
procVars == <<procs, sigPending, pipeBuf>>

(***************************************************************************)
(* The operating system's side: descriptors and files.                     *)
(***************************************************************************)
PIPE_READ_END == 0
PIPE_WRITE_END == 1

Tty == [kind |-> "tty", name |-> <<>>, pipe |-> 0]
FileRef(name) == [kind |-> "file", name |-> name, pipe |-> 0]
PipeRef(end, k) == [kind |-> end, name |-> <<>>, pipe |-> k]

\* the descriptor a successful open(), dup() or pipe() returns: the lowest free one
LowestFree(open) == CHOOSE n \in 0..Cardinality(open) : n \notin open /\ \A m \in 0..(n - 1) : m \in open

\* fd |-> ref added to a descriptor table
Bind(table, fd, ref) == [d \in DOMAIN table \cup {fd} |-> IF d = fd THEN ref ELSE table[d]]

\* close(fd) in a descriptor table (EBADF leaves the table as it is)
Unbind(table, fd) == [d \in DOMAIN table \ {fd} |-> table[d]]

\* the content of the working directory when the shell starts
InitialFiles == [n \in {NameF} |-> "data"]

\* open(O_WRONLY | O_CREAT | O_TRUNC or O_APPEND) of a name that is not NULL
OpenForWriting(files, name, isAppend) ==
  [n \in DOMAIN files \cup {name} |->
     IF n # name THEN files[n]
     ELSE IF n \in DOMAIN files /\ isAppend THEN files[n] ELSE "empty"]

(***************************************************************************)
(* The heap.                                                               *)
(***************************************************************************)
Alloc(h, type) == Append(h, [type |-> type, frees |-> 0])

Occurrences(seq, x) == Cardinality({k \in DOMAIN seq : seq[k] = x})

\* free() applied to every identifier of the sequence ids
Free(h, ids) == [i \in DOMAIN h |-> [h[i] EXCEPT !.frees = @ + Occurrences(ids, i)]]

(***************************************************************************)
(* Init: main has read a line, appended it to the history, tokenized it    *)
(* and entered parseTokens, which has allocated the chain.  A line made of *)
(* delimiters only overflows the token array: the process may be killed.   *)
(***************************************************************************)
\* what main and the system have set up before the first line is tokenized
Booted(files) ==
  /\ stack = <<>>
  /\ procs = <<>>
  /\ sigPending = FALSE
  /\ pipeBuf = <<>>
  /\ idx = 1
  /\ command = initCommand(0)
  /\ simpleCommand = NullSimpleCommand
  /\ commandChain = "unset"
  /\ parseErr = ""
  /\ fdTable = [d \in {STDIN_FD, STDOUT_FD, STDERR_FD} |-> Tty]
  /\ fs = files
  /\ pipes = <<>>
  /\ openedFDs = <<>>
  /\ closeLog = <<>>
  /\ shellState = [originalStdinFD |-> STDIN_FD, originalStdoutFD |-> STDOUT_FD,
                   originalStderrFD |-> STDERR_FD]
  /\ cmdIdx = 0
  /\ scIdx = 0
  /\ invoked = <<>>
  /\ executed = <<>>
  /\ lastStatus = 0
  /\ status = "unset"
  /\ nextPid = 100

StartWith(prior, line, files) ==
  /\ history = add_to_history(prior, Join(line, " "))
  /\ tokens = tokenizeString(Join(line, " "), " ")
  /\ strHeap = [tokenIds |-> [k \in 1..Len(tokenizeString(Join(line, " "), " ")) |-> k],
                nTokens |-> Len(tokenizeString(Join(line, " "), " ")),
                freed |-> <<>>]
  /\ pc \in IF tokenizeOverflows(Join(line, " "), " ")
             THEN {"parse_outer", "crashed"} ELSE {"parse_outer"}
  /\ chain = initCommandChain(1)
  /\ heap = Alloc(<<>>, "CommandChain")
  /\ Booted(files)

\* the same in the working directory every run but those on patterns start in
Start(prior, line) == StartWith(prior, line, InitialFiles)

Init ==
  \E prior \in PriorHistories, line \in Lines \cup HistoryLines :
    /\ prior # <<>> => line \in HistoryLines
    /\ Start(prior, line)

(***************************************************************************)
(* parseTokens.                                                            *)
(***************************************************************************)
TokenAt(i) == IF i \in 1..Len(tokens) THEN tokens[i] ELSE NullStr

Tok == TokenAt(idx)

\* do { fileNameToken = tokens[++currentIndexInTokens]; } while (IGNORE(fileNameToken));
RECURSIVE FileNameIndex(_)
FileNameIndex(i) == IF IGNORE(TokenAt(i + 1)) THEN FileNameIndex(i + 1) ELSE i + 1

\* the guards of the operator branches
\* the command-name check left out
NoCommandNameUnchecked(sc) == FALSE
NoCommandName(sc) == sc.commandName = NullStr
OutputBound(sc) == sc.outputFD # STDOUT_FD
\* the check for an earlier input binding left out
InputBoundUnchecked(sc) == FALSE
InputBound(sc) == sc.inputFD # STDIN_FD
StderrBound(sc) == sc.stderrFD # STDERR_FD

\* the history-bang test without the check of the command name
IsHistoryBangAnywhere(sc, token) == Len(token) > 1 /\ token[1] = "!"

\* the history-bang branch: `!` and at least one more character, first in its segment
IsHistoryBang(sc, token) == NoCommandName(sc) /\ Len(token) > 1 /\ token[1] = "!"

\* what the three clean-up calls of an error return free
FreedOnError == cleanUpCommandChain(chain) \o cleanUpCommand(command) \o cleanUpSimpleCommand(simpleCommand)

\* what the error returns of `<` and `2>` free when open() fails
FreedOnOpenError == cleanUpCommandChain(chain)

\* the strings the same calls free
StringsOnError ==
  cleanUpCommandChainStrings(chain) \o cleanUpCommandStrings(command)
    \o cleanUpSimpleCommandStrings(simpleCommand)
StringsOnOpenError == cleanUpCommandChainStrings(chain)

\* an error return: the clean-up calls, then return NULL to main
ParseAbort(msg, freed, strings) ==
  /\ heap' = Free(heap, freed)
  /\ strHeap' = FreeStrings(strHeap, strings)
  /\ commandChain' = "NULL"
  /\ parseErr' = msg
  /\ chain' = initCommandChain(0)
  /\ command' = initCommand(0)
  /\ simpleCommand' = NullSimpleCommand
  /\ pc' = "execute"

InFor == pc = "parse_inner" /\ ~IS_NULL(Tok) /\ ~IS_CHAINING_OPERATOR(Tok)

\* while (tokens[currentIndexInTokens] != NULL): a new Command and SimpleCommand
ParseBeginCommand ==
  /\ pc = "parse_outer"
  /\ ~IS_NULL(Tok)
  /\ command' = initCommand(Len(heap) + 1)
  /\ simpleCommand' = initSimpleCommand(Len(heap) + 2)
  /\ heap' = Alloc(Alloc(heap, "Command"), "SimpleCommand")
  /\ pc' = "parse_inner"
  /\ UNCHANGED <<tokens, idx, chain, commandChain, parseErr>>
  /\ UNCHANGED <<osVars, execVars>>
  /\ UNCHANGED histVars
  /\ UNCHANGED procVars
  /\ UNCHANGED strHeap

\* the while loop ends: return chain
ParseReturnChain ==
  /\ pc = "parse_outer"
  /\ IS_NULL(Tok)
  /\ commandChain' = "chain"
  /\ pc' = "execute"
  /\ UNCHANGED <<tokens, idx, chain, command, simpleCommand, parseErr, heap>>
  /\ UNCHANGED <<osVars, execVars>>
  /\ UNCHANGED histVars
  /\ UNCHANGED procVars
  /\ UNCHANGED strHeap

\* `|`
ParsePipe ==
  /\ InFor
  /\ IS_PIPE(Tok)
  /\ IF NoCommandName(simpleCommand)
       THEN /\ ParseAbort("Parse error near", FreedOnError, StringsOnError)
            /\ UNCHANGED <<tokens, idx, osVars, execVars, pipeBuf>>
     ELSE IF OutputBound(simpleCommand)
       THEN /\ ParseAbort("Cannot pipe to multiple commands", FreedOnError, StringsOnError)
            /\ UNCHANGED <<tokens, idx, osVars, execVars, pipeBuf>>
     ELSE \/ \* pipe() == -1
             /\ ParseAbort("Failed to create pipe", FreedOnError, StringsOnError)
             /\ UNCHANGED <<tokens, idx, osVars, execVars, pipeBuf>>
          \/ LET r == LowestFree(DOMAIN fdTable)
                 w == LowestFree(DOMAIN fdTable \cup {r})
                 k == Len(pipeBuf) + 1
                 pipeFD == <<r, w>>
                 done == [simpleCommand EXCEPT
                            !.outputFD = pipeFD[PIPE_WRITE_END + 1],
                            !.execute = getExecutionFunction(simpleCommand.commandName)]
             IN /\ fdTable' = Bind(Bind(fdTable, r, PipeRef("pipe_r", k)), w, PipeRef("pipe_w", k))
                /\ pipes' = Append(pipes, pipeFD)
                /\ pipeBuf' = Append(pipeBuf, 0)
                /\ openedFDs' = openedFDs \o pipeFD
                /\ command' = addSimpleCommand(command, done)
                /\ heap' = Alloc(heap, "SimpleCommand")
                /\ simpleCommand' = [initSimpleCommand(Len(heap) + 1) EXCEPT
                                       !.inputFD = pipeFD[PIPE_READ_END + 1]]
                /\ idx' = idx + 1
                /\ UNCHANGED <<strHeap, tokens, pc, chain, commandChain, parseErr>>
                /\ UNCHANGED <<fs, closeLog, shellState, nextPid, execVars>>
  /\ UNCHANGED histVars
  /\ UNCHANGED <<procs, sigPending>>

\* `>` and `>>`
ParseOutRedir ==
  /\ InFor
  /\ IS_FILE_OUT_REDIR(Tok)
  /\ IF NoCommandName(simpleCommand)
       THEN /\ ParseAbort("Output redirection encountered before command", FreedOnError, StringsOnError)
            /\ UNCHANGED <<tokens, idx, osVars, execVars>>
     ELSE IF OutputBound(simpleCommand)
       THEN /\ ParseAbort("Cannot redirect output to multiple files", FreedOnError, StringsOnError)
            /\ UNCHANGED <<tokens, idx, osVars, execVars>>
     ELSE LET isAppend == IS_APPEND(Tok)
              fileIdx == FileNameIndex(idx)
              fileNameToken == TokenAt(fileIdx)
              fileFD == LowestFree(DOMAIN fdTable)
          IN IF fileNameToken = NullStr
               THEN \* open(NULL, ...) == -1
                    /\ ParseAbort("Failed to open file for output redirection", FreedOnError, StringsOnError)
                    /\ UNCHANGED <<tokens, idx, osVars, execVars>>
               ELSE /\ fs' = OpenForWriting(fs, fileNameToken, isAppend)
                    /\ fdTable' = Bind(fdTable, fileFD, FileRef(fileNameToken))
                    /\ openedFDs' = Append(openedFDs, fileFD)
                    /\ simpleCommand' = [simpleCommand EXCEPT !.outputFD = fileFD]
                    /\ idx' = fileIdx + 1
                    /\ UNCHANGED <<strHeap, tokens, pc, chain, command, commandChain, parseErr, heap>>
                    /\ UNCHANGED <<pipes, closeLog, shellState, nextPid, execVars>>
  /\ UNCHANGED histVars
  /\ UNCHANGED procVars

\* an open that succeeds whether the file exists or not
OpenForReadingFailsNever(name) == FALSE

\* open(name, O_RDONLY) == -1: there is no such file
OpenForReadingFails(name) == name = NullStr \/ name \notin DOMAIN fs

\* `<`
ParseInRedir ==
  /\ InFor
  /\ IS_FILE_IN_REDIR(Tok)
  /\ IF InputBound(simpleCommand)
       THEN /\ ParseAbort("Cannot redirect input from multiple files", FreedOnError, StringsOnError)
            /\ UNCHANGED <<tokens, idx, osVars, execVars>>
     ELSE LET fileIdx == FileNameIndex(idx)
              fileNameToken == TokenAt(fileIdx)
              fileFD == LowestFree(DOMAIN fdTable)
          IN IF OpenForReadingFails(fileNameToken)
               THEN \* open(name, O_RDONLY) == -1
                    /\ ParseAbort("Failed to open file for input redirection", FreedOnOpenError, StringsOnOpenError)
                    /\ UNCHANGED <<tokens, idx, osVars, execVars>>
               ELSE /\ fdTable' = Bind(fdTable, fileFD, FileRef(fileNameToken))
                    /\ openedFDs' = Append(openedFDs, fileFD)
                    /\ simpleCommand' = [simpleCommand EXCEPT !.inputFD = fileFD]
                    /\ idx' = fileIdx + 1
                    /\ UNCHANGED <<strHeap, tokens, pc, chain, command, commandChain, parseErr, heap>>
                    /\ UNCHANGED <<fs, pipes, closeLog, shellState, nextPid, execVars>>
  /\ UNCHANGED histVars
  /\ UNCHANGED procVars

\* `2>`
ParseErrRedir ==
  /\ InFor
  /\ IS_STDERR_REDIR(Tok)
  /\ IF StderrBound(simpleCommand)
       THEN /\ ParseAbort("Cannot redirect stderr to multiple files", FreedOnError, StringsOnError)
            /\ UNCHANGED <<tokens, idx, osVars, execVars>>
     ELSE LET fileIdx == FileNameIndex(idx)
              fileNameToken == TokenAt(fileIdx)
              fileFD == LowestFree(DOMAIN fdTable)
          IN IF fileNameToken = NullStr
               THEN \* open(NULL, ...) == -1
                    /\ ParseAbort("Failed to open file for stderr redirection", FreedOnOpenError, StringsOnOpenError)
                    /\ UNCHANGED <<tokens, idx, osVars, execVars>>
               ELSE /\ fs' = OpenForWriting(fs, fileNameToken, FALSE)
                    /\ fdTable' = Bind(fdTable, fileFD, FileRef(fileNameToken))
                    /\ openedFDs' = Append(openedFDs, fileFD)
                    /\ simpleCommand' = [simpleCommand EXCEPT !.stderrFD = fileFD]
                    /\ idx' = fileIdx + 1
                    /\ UNCHANGED <<strHeap, tokens, pc, chain, command, commandChain, parseErr, heap>>
                    /\ UNCHANGED <<pipes, closeLog, shellState, nextPid, execVars>>
  /\ UNCHANGED histVars
  /\ UNCHANGED procVars

IsOperator(token) ==
  \/ IS_PIPE(token) \/ IS_FILE_OUT_REDIR(token) \/ IS_FILE_IN_REDIR(token)
  \/ IS_STDERR_REDIR(token)

\* an ignorable token: continue
ParseIgnore ==
  /\ InFor
  /\ ~IsOperator(Tok)
  /\ IGNORE(Tok)
  /\ idx' = idx + 1
  /\ UNCHANGED <<tokens, pc, chain, command, simpleCommand, commandChain, parseErr, heap>>
  /\ UNCHANGED <<osVars, execVars>>
  /\ UNCHANGED histVars
  /\ UNCHANGED procVars
  /\ UNCHANGED strHeap

\* a plain token: quotes removed in place, glob, every path pushed; failing is
\* 0, or the push whose strndup results are argCopied and nameCopied
ParsePlainPushing(failing, argCopied, nameCopied) ==
  /\ InFor
  /\ ~IsOperator(Tok)
  /\ ~IGNORE(Tok)
  /\ ~IsHistoryBang(simpleCommand, Tok)
  /\ LET stripped == removeQuotes(Tok) IN
       /\ tokens' = [tokens EXCEPT ![idx] = stripped]
       /\ strHeap' = IF stripped = Tok THEN strHeap
                     ELSE \* malloc(modifiedString), free(inputString)
                          [strHeap EXCEPT
                             !.freed = Append(@, TokenBlock(strHeap.tokenIds[idx])),
                             !.tokenIds = StoreToken(@, idx, strHeap.nTokens + 1),
                             !.nTokens = @ + 1]
       /\ simpleCommand' =
            IF failing = 0 THEN pushAll(glob(stripped, fs), simpleCommand)
            ELSE pushAllFailingAt(glob(stripped, fs), simpleCommand, failing, argCopied, nameCopied)
  /\ idx' = idx + 1
  /\ UNCHANGED <<pc, chain, command, commandChain, parseErr, heap>>
  /\ UNCHANGED <<osVars, execVars>>
  /\ UNCHANGED histVars
  /\ UNCHANGED procVars

\* a plain token when every allocation succeeds
ParsePlain == ParsePlainPushing(0, TRUE, TRUE)

\* a plain token when strndup returns NULL in one pushArgs: for the argument,
\* for the command name, or for both
ParsePlainCopyFails ==
  /\ InFor
  /\ \E k \in 1..Len(glob(removeQuotes(Tok), fs)), argCopied \in BOOLEAN, nameCopied \in BOOLEAN :
       /\ ~(argCopied /\ nameCopied)
       /\ ParsePlainPushing(k, argCopied, nameCopied)

\* realloc fails in the first pushArgs of a token: pushArgs returns -1 and
\* parseTokens cleans up and returns NULL
ParsePushArgsFails ==
  /\ InFor
  /\ ~IsOperator(Tok)
  /\ ~IGNORE(Tok)
  /\ (IsHistoryBang(simpleCommand, Tok) \/ removeQuotes(Tok) = Tok)
  /\ ParseAbort("Failed to push argument to simple command", FreedOnError, StringsOnError)
  /\ UNCHANGED <<tokens, idx, osVars, execVars>>
  /\ UNCHANGED histVars
  /\ UNCHANGED procVars

\* a `!` token of two characters or more where the command name is expected:
\* "history" and the token without its first character are pushed
ParseBang ==
  /\ InFor
  /\ ~IsOperator(Tok)
  /\ ~IGNORE(Tok)
  /\ IsHistoryBang(simpleCommand, Tok)
  /\ simpleCommand' = pushArgs(Tail(Tok), pushArgs(NameHistory, simpleCommand))
  /\ idx' = idx + 1
  /\ UNCHANGED <<tokens, pc, chain, command, commandChain, parseErr, heap>>
  /\ UNCHANGED <<osVars, execVars>>
  /\ UNCHANGED histVars
  /\ UNCHANGED procVars
  /\ UNCHANGED strHeap

\* the for loop ends at a chaining operator or at the end of the tokens;
\* added: realloc in addSimpleCommand succeeded, copied: strndup of the operator did
ParseEndSegmentWith(added, copied) ==
  /\ pc = "parse_inner"
  /\ (IS_NULL(Tok) \/ IS_CHAINING_OPERATOR(Tok))
  /\ LET named == simpleCommand.id # 0 /\ ~NoCommandName(simpleCommand)
         done == [simpleCommand EXCEPT
                    !.execute = getExecutionFunction(simpleCommand.commandName)]
         withLast == IF named /\ added THEN addSimpleCommand(command, done) ELSE command
         operator == IF copied THEN COPY(Tok) ELSE NullStr
         finished == [withLast EXCEPT
                        !.chainingOperator = operator,
                        !.background = IF IS_BACKGROUND(operator) THEN TRUE ELSE @]
     IN chain' = addCommandToChain(chain, finished)
  /\ idx' = IF ~IS_NULL(Tok) THEN idx + 1 ELSE idx
  /\ command' = initCommand(0)
  /\ simpleCommand' = NullSimpleCommand
  /\ pc' = "parse_outer"
  /\ UNCHANGED <<tokens, commandChain, parseErr, heap>>
  /\ UNCHANGED <<osVars, execVars>>
  /\ UNCHANGED histVars
  /\ UNCHANGED procVars
  /\ UNCHANGED strHeap

\* the end of a segment when every allocation succeeds
ParseEndSegment == ParseEndSegmentWith(TRUE, TRUE)

\* the end of a segment when realloc fails in addSimpleCommand (its return
\* value is not looked at) or strndup fails for the operator
ParseEndSegmentAllocFails ==
  \E added \in BOOLEAN, copied \in BOOLEAN :
    /\ ~(added /\ copied)
    /\ ParseEndSegmentWith(added, copied)

\* malloc fails in initCommand, or in initSimpleCommand after the Command was
\* allocated: parseTokens cleans up and returns NULL
ParseBeginCommandAllocFails ==
  /\ pc = "parse_outer"
  /\ ~IS_NULL(Tok)
  /\ \/ /\ ParseAbort("Failed to allocate memory for command",
                       cleanUpCommandChain(chain), cleanUpCommandChainStrings(chain))
     \/ /\ heap' = Free(Alloc(heap, "Command"),
                        cleanUpCommandChain(chain) \o cleanUpCommand(initCommand(Len(heap) + 1)))
        /\ strHeap' = FreeStrings(strHeap, cleanUpCommandChainStrings(chain))
        /\ commandChain' = "NULL"
        /\ parseErr' = "Failed to allocate memory for simple command"
        /\ chain' = initCommandChain(0)
        /\ command' = initCommand(0)
        /\ simpleCommand' = NullSimpleCommand
        /\ pc' = "execute"
  /\ UNCHANGED <<tokens, idx, osVars, execVars>>
  /\ UNCHANGED histVars
  /\ UNCHANGED procVars

Parse ==
  \/ ParseBeginCommand
  \/ ParseReturnChain
  \/ ParsePipe
  \/ ParseOutRedir
  \/ ParseInRedir
  \/ ParseErrRedir
  \/ ParseIgnore
  \/ ParseBang
  \/ ParsePlain
  \/ ParseEndSegment

(***************************************************************************)
(* The builtin side: setUpFD and resetFD act on the control process's      *)
(* descriptor table (fds), globalShellState (sh) and the close() log (cl). *)
(* ok is FALSE once a dup2 has failed.                                     *)
(***************************************************************************)
\* one `if (xFD != STD_X) { original = dup(STD_X); dup2(xFD, STD_X); close(xFD); }`
SetUpOne(st, fd, std, field) ==
  IF ~st.ok \/ fd = std THEN st
  ELSE LET saved == IF std \in DOMAIN st.fds THEN LowestFree(DOMAIN st.fds) ELSE -1
           fds1 == IF saved = -1 THEN st.fds ELSE Bind(st.fds, saved, st.fds[std])
           sh1 == [st.sh EXCEPT ![field] = saved]
       IN IF fd \notin DOMAIN fds1
            THEN [fds |-> fds1, sh |-> sh1, cl |-> st.cl, ok |-> FALSE]
            ELSE [fds |-> Unbind(Bind(fds1, std, fds1[fd]), fd), sh |-> sh1,
                  cl |-> Append(st.cl, fd), ok |-> TRUE]

setUpFD(st, inputFD, outputFD, stderrFD) ==
  SetUpOne(SetUpOne(SetUpOne(st, inputFD, STDIN_FD, "originalStdinFD"),
                    outputFD, STDOUT_FD, "originalStdoutFD"),
           stderrFD, STDERR_FD, "originalStderrFD")

\* one `if (original != STD_X) dup2(original, STD_X)`; a failing dup2 is exit(1)
ResetOne(st, std, field) ==
  IF ~st.ok \/ st.sh[field] = std THEN st
  ELSE IF st.sh[field] \notin DOMAIN st.fds THEN [st EXCEPT !.ok = FALSE]
  ELSE [st EXCEPT !.fds = Bind(st.fds, std, st.fds[st.sh[field]])]

resetFD(st) ==
  ResetOne(ResetOne(ResetOne(st, STDIN_FD, "originalStdinFD"),
                    STDOUT_FD, "originalStdoutFD"),
           STDERR_FD, "originalStderrFD")

(***************************************************************************)
(* executeCommandChain and executeCommand.                                 *)
(***************************************************************************)
\* the Command executeCommandChain is at, and the stage executeCommand is at
CurCommand == chain.commands[cmdIdx + 1]
CurSimple == CurCommand.simpleCommands[scIdx + 1]

InExecuteCommand ==
  /\ pc = "execute"
  /\ commandChain = "chain"
  /\ cmdIdx < Len(chain.commands)
  /\ CurCommand.nSimpleCommands # 0

\* executeCommand without the background test of command.c 218-221
WithNoWaitIgnored(sc) == sc

\* executeCommand setting the flag for every Command
WithNoWaitAlways(sc) == [sc EXCEPT !.noWait = 1]

\* executeCommand: `if (command->background) simpleCommand->noWait = 1;`
WithNoWait(sc) == IF CurCommand.background THEN [sc EXCEPT !.noWait = 1] ELSE sc

\* an executeCommand that closes the input of a stage only
ClosedAfterStageInputOnly(sc) == IF sc.inputFD # STDIN_FD THEN <<sc.inputFD>> ELSE <<>>

\* the descriptors executeCommand closes after a handler returned zero
ClosedAfterStage(sc) ==
  (IF sc.inputFD # STDIN_FD THEN <<sc.inputFD>> ELSE <<>>)
    \o (IF sc.outputFD # STDOUT_FD THEN <<sc.outputFD>> ELSE <<>>)

RECURSIVE CloseAll(_, _)
CloseAll(table, fds) ==
  IF fds = <<>> THEN table ELSE CloseAll(Unbind(table, Head(fds)), Tail(fds))

\* executeCommand going on to the next stage whatever the status
ShortCircuitsNever(st) == FALSE

\* does executeCommand stop after a handler reported this status?
ShortCircuits(st) == st # 0

\* executeCommandChain leaving its loop at the first Command that failed
CommandReturnsAbortingChain(st) ==
  /\ executed' = Append(executed, [command |-> cmdIdx + 1, status |-> st])
  /\ lastStatus' = st
  /\ cmdIdx' = IF st # 0 THEN Len(chain.commands) ELSE cmdIdx + 1
  /\ scIdx' = 0

\* executeCommand returns st to executeCommandChain, which moves to the next Command
CommandReturns(st) ==
  /\ executed' = Append(executed, [command |-> cmdIdx + 1, status |-> st])
  /\ lastStatus' = st
  /\ cmdIdx' = cmdIdx + 1
  /\ scIdx' = 0

\* what the three standard-stream slots of a descriptor table refer to
Closed == [kind |-> "closed", name |-> <<>>, pipe |-> 0]
StdSlots(table) ==
  [d \in {STDIN_FD, STDOUT_FD, STDERR_FD} |-> IF d \in DOMAIN table THEN table[d] ELSE Closed]

\* the rest of the loop body of executeCommand once the handler of stage sc,
\* invoked when the standard streams were as in before, has returned st, having
\* left the descriptor table as fds and the close log as cl
AfterHandlerFrom(before, sc, st, fds, cl) ==
  /\ chain' = [chain EXCEPT !.commands[cmdIdx + 1].simpleCommands[scIdx + 1] = sc]
  /\ invoked' = Append(invoked, [command |-> cmdIdx + 1, stage |-> scIdx + 1,
                                 handler |-> sc.execute, status |-> st,
                                 stdBefore |-> before, stdAfter |-> StdSlots(fds)])
  /\ IF ShortCircuits(st)
       THEN /\ CommandReturns(st)
            /\ fdTable' = fds
            /\ closeLog' = cl
       ELSE /\ fdTable' = CloseAll(fds, ClosedAfterStage(sc))
            /\ closeLog' = cl \o ClosedAfterStage(sc)
            /\ IF scIdx + 1 = CurCommand.nSimpleCommands
                 THEN CommandReturns(0)
                 ELSE /\ scIdx' = scIdx + 1
                      /\ UNCHANGED <<executed, lastStatus, cmdIdx>>

\* the same for a handler that ran from invocation to return in this step
AfterHandler(sc, st, fds, cl) == AfterHandlerFrom(StdSlots(fdTable), sc, st, fds, cl)

\* executeCommandChain without its NULL check reporting lastStatus
ExecuteChainNullUnchecked ==
  /\ pc = "execute"
  /\ commandChain = "NULL"
  /\ pc' = "cleanup"
  /\ status' = lastStatus
  /\ UNCHANGED <<parseVars, heap, osVars, cmdIdx, scIdx, invoked, executed, lastStatus>>
  /\ UNCHANGED histVars
  /\ UNCHANGED procVars
  /\ UNCHANGED strHeap

\* executeCommandChain(NULL)
ExecuteChainNull ==
  /\ pc = "execute"
  /\ commandChain = "NULL"
  /\ pc' = "cleanup"
  /\ status' = -1
  /\ UNCHANGED <<parseVars, heap, osVars, cmdIdx, scIdx, invoked, executed, lastStatus>>
  /\ UNCHANGED histVars
  /\ UNCHANGED procVars
  /\ UNCHANGED strHeap

\* executeCommand of a Command without SimpleCommands
ExecuteCommandEmpty ==
  /\ pc = "execute"
  /\ commandChain = "chain"
  /\ cmdIdx < Len(chain.commands)
  /\ CurCommand.nSimpleCommands = 0
  /\ CommandReturns(-1)
  /\ UNCHANGED <<parseVars, heap, osVars, pc, invoked, status>>
  /\ UNCHANGED histVars
  /\ UNCHANGED procVars
  /\ UNCHANGED strHeap

\* executeCommand: `if (!simpleCommand->commandName) return -1;`
StageRejected(sc) ==
  /\ chain' = [chain EXCEPT !.commands[cmdIdx + 1].simpleCommands[scIdx + 1] = sc]
  /\ CommandReturns(-1)
  /\ UNCHANGED <<invoked, fdTable, closeLog>>

\* one iteration of executeCommand's loop whose handler is executeProcess
ExecuteStageProcess ==
  /\ InExecuteCommand
  /\ CurSimple.execute = "executeProcess"
  /\ LET sc == WithNoWait(CurSimple) IN
       \/ \* no command name
          /\ sc.commandName = NullStr
          /\ StageRejected(sc)
          /\ UNCHANGED nextPid
       \/ \* fork() == -1
          /\ sc.commandName # NullStr
          /\ AfterHandler(sc, -1, fdTable, closeLog)
          /\ UNCHANGED nextPid
       \/ \* the parent: the child is not waited for
          /\ sc.commandName # NullStr
          /\ sc.noWait # 0
          /\ AfterHandler([sc EXCEPT !.pid = nextPid], 0, fdTable, closeLog)
          /\ nextPid' = nextPid + 1
       \/ \* the parent: waitpid reports the child's exit code, or fails because
          \* the SIGCHLD handler claimed the child first
          /\ sc.commandName # NullStr
          /\ sc.noWait = 0
          /\ \E code \in ExitCodes \cup {-1} :
               AfterHandler([sc EXCEPT !.pid = nextPid], code, fdTable, closeLog)
          /\ nextPid' = nextPid + 1
  /\ UNCHANGED <<tokens, idx, command, simpleCommand, commandChain, parseErr, heap>>
  /\ UNCHANGED <<fs, pipes, openedFDs, shellState, pc, status>>
  /\ UNCHANGED histVars
  /\ UNCHANGED procVars
  /\ UNCHANGED strHeap

\* one iteration of executeCommand's loop whose handler is the builtin pwd
ExecuteStagePwd ==
  /\ InExecuteCommand
  /\ CurSimple.execute = "pwd"
  /\ LET sc == WithNoWait(CurSimple)
         st0 == [fds |-> fdTable, sh |-> shellState, cl |-> closeLog, ok |-> TRUE]
         st1 == setUpFD(st0, sc.inputFD, sc.outputFD, sc.stderrFD)
         st2 == resetFD(st1)
     IN IF sc.argc > 1
          THEN /\ AfterHandler(sc, -1, fdTable, closeLog)
               /\ UNCHANGED <<shellState, pc>>
          ELSE \/ \* getcwd() == NULL
                  /\ AfterHandler(sc, -1, fdTable, closeLog)
                  /\ UNCHANGED <<shellState, pc>>
               \/ IF ~st1.ok
                    THEN \* setUpFD failed
                         /\ AfterHandler(sc, -1, st1.fds, st1.cl)
                         /\ shellState' = st1.sh
                         /\ UNCHANGED pc
                  ELSE IF ~st2.ok
                    THEN \* resetFD: exit(1)
                         /\ pc' = "exited"
                         /\ fdTable' = st2.fds
                         /\ closeLog' = st2.cl
                         /\ shellState' = st2.sh
                         /\ UNCHANGED <<chain, cmdIdx, scIdx, invoked, executed, lastStatus>>
                  ELSE /\ AfterHandler(sc, 0, st2.fds, st2.cl)
                       /\ shellState' = st2.sh
                       /\ UNCHANGED pc
  /\ UNCHANGED <<tokens, idx, command, simpleCommand, commandChain, parseErr, heap>>
  /\ UNCHANGED <<fs, pipes, openedFDs, nextPid, status>>
  /\ UNCHANGED histVars
  /\ UNCHANGED procVars
  /\ UNCHANGED strHeap

\* the line cycle the history builtin suspends while it runs the recalled line
Frame(before) ==
  [tokens |-> tokens, idx |-> idx, chain |-> chain, commandChain |-> commandChain,
   parseErr |-> parseErr, pipes |-> pipes, openedFDs |-> openedFDs,
   cmdIdx |-> cmdIdx, scIdx |-> scIdx, invoked |-> invoked, executed |-> executed,
   lastStatus |-> lastStatus, status |-> status, stdBefore |-> before,
   tokenIds |-> strHeap.tokenIds]

\* history: `char** tokens = tokenizeString(input, ' ');` and the entry of
\* parseTokens, with the descriptor table, shell state and close log setUpFD left
HistoryRecall(input, st) ==
  /\ Len(stack) < MaxDepth
  /\ stack' = <<Frame(StdSlots(fdTable))>> \o stack
  /\ tokens' = tokenizeString(input, " ")
  /\ strHeap' = [strHeap EXCEPT
                   !.tokenIds = [k \in 1..Len(tokenizeString(input, " ")) |-> strHeap.nTokens + k],
                   !.nTokens = @ + Len(tokenizeString(input, " "))]
  /\ idx' = 1
  /\ pc' = IF tokenizeOverflows(input, " ") THEN "crashed" ELSE "parse_outer"
  /\ chain' = initCommandChain(Len(heap) + 1)
  /\ heap' = Alloc(heap, "CommandChain")
  /\ commandChain' = "unset"
  /\ parseErr' = ""
  /\ pipes' = <<>>
  /\ openedFDs' = <<>>
  /\ cmdIdx' = 0
  /\ scIdx' = 0
  /\ invoked' = <<>>
  /\ executed' = <<>>
  /\ lastStatus' = 0
  /\ status' = "unset"
  /\ fdTable' = st.fds
  /\ closeLog' = st.cl
  /\ shellState' = st.sh
  /\ UNCHANGED <<command, simpleCommand, fs, nextPid, history>>

\* one iteration of executeCommand's loop whose handler is the builtin history,
\* up to its return or to the parse of the line it recalls
ExecuteStageHistory ==
  /\ InExecuteCommand
  /\ CurSimple.execute = "history"
  /\ LET sc == WithNoWait(CurSimple)
         st0 == [fds |-> fdTable, sh |-> shellState, cl |-> closeLog, ok |-> TRUE]
         st1 == setUpFD(st0, sc.inputFD, sc.outputFD, sc.stderrFD)
         st2 == resetFD(st1)
         found == IF IsAllDigits(sc.args[2])
                    THEN get_command(history, atoi(sc.args[2]))
                    ELSE find_last_command_with_prefix(history, sc.args[2])
         returns(st, s) ==
           /\ AfterHandler(sc, st, s.fds, s.cl)
           /\ shellState' = s.sh
           /\ UNCHANGED <<tokens, idx, commandChain, parseErr, heap, pipes, openedFDs>>
           /\ UNCHANGED <<command, simpleCommand, fs, nextPid, pc, status, history, stack>>
           /\ UNCHANGED strHeap
         stops(at, s) ==
           /\ pc' = at
           /\ fdTable' = s.fds
           /\ closeLog' = s.cl
           /\ shellState' = s.sh
           /\ UNCHANGED <<parseVars, heap, fs, pipes, openedFDs, nextPid, execVars, histVars>>
           /\ UNCHANGED strHeap
     IN IF sc.argc > 2 THEN returns(-1, st0)
        ELSE IF ~st1.ok THEN returns(-1, st1)
        ELSE IF sc.argc = 1
          THEN IF ~st2.ok THEN stops("exited", st2) ELSE returns(0, st2)
        ELSE IF found = Fault THEN stops("crashed", st1)
        ELSE IF found = NullStr THEN returns(-1, st1)
        ELSE HistoryRecall(COPY(found), st1)
  /\ UNCHANGED procVars

\* history: `freeTokens(tokens); cleanUpCommandChain(commandChain); free(input);`
\* the locals of the recalled line cycle go, those of the suspended one are back
HistoryCleanUp ==
  /\ pc = "cleanup"
  /\ stack # <<>>
  /\ heap' = Free(heap, cleanUpCommandChain(IF commandChain = "NULL" THEN initCommandChain(0) ELSE chain))
  /\ pc' = "history_return"
  /\ strHeap' = [FreeStrings(strHeap,
                     freeTokens(strHeap.tokenIds)
                       \o cleanUpCommandChainStrings(IF commandChain = "NULL" THEN initCommandChain(0) ELSE chain))
                   EXCEPT !.tokenIds = Head(stack).tokenIds]
  /\ LET f == Head(stack) IN
       /\ tokens' = f.tokens
       /\ idx' = f.idx
       /\ chain' = f.chain
       /\ commandChain' = f.commandChain
       /\ parseErr' = f.parseErr
       /\ pipes' = f.pipes
       /\ openedFDs' = f.openedFDs
       /\ cmdIdx' = f.cmdIdx
       /\ scIdx' = f.scIdx
       /\ invoked' = f.invoked
       /\ executed' = f.executed
       /\ lastStatus' = f.lastStatus
       /\ status' = f.status
  /\ UNCHANGED <<command, simpleCommand, fdTable, fs, closeLog, shellState, nextPid>>
  /\ UNCHANGED histVars
  /\ UNCHANGED procVars

\* history: `return 0;` and the rest of the loop body of executeCommand
HistoryReturn ==
  /\ pc = "history_return"
  /\ AfterHandlerFrom(Head(stack).stdBefore, WithNoWait(CurSimple), 0, fdTable, closeLog)
  /\ stack' = Tail(stack)
  /\ pc' = "execute"
  /\ UNCHANGED <<tokens, idx, command, simpleCommand, commandChain, parseErr, heap>>
  /\ UNCHANGED <<fs, pipes, openedFDs, shellState, nextPid, status, history>>
  /\ UNCHANGED procVars
  /\ UNCHANGED strHeap

\* executeCommandChain: the loop ends, return lastStatus
ExecuteChainReturn ==
  /\ pc = "execute"
  /\ commandChain = "chain"
  /\ cmdIdx = Len(chain.commands)
  /\ pc' = "cleanup"
  /\ status' = lastStatus
  /\ UNCHANGED <<parseVars, heap, osVars, cmdIdx, scIdx, invoked, executed, lastStatus>>
  /\ UNCHANGED histVars
  /\ UNCHANGED procVars
  /\ UNCHANGED strHeap

\* main: freeTokens(tokens); cleanUpCommandChain(commandChain);
CleanUp ==
  /\ pc = "cleanup"
  /\ stack = <<>>
  /\ heap' = Free(heap, cleanUpCommandChain(IF commandChain = "NULL" THEN initCommandChain(0) ELSE chain))
  /\ pc' = "done"
  /\ strHeap' = FreeStrings(strHeap,
                   freeTokens(strHeap.tokenIds)
                     \o cleanUpCommandChainStrings(IF commandChain = "NULL" THEN initCommandChain(0) ELSE chain))
  /\ UNCHANGED <<parseVars, osVars, execVars>>
  /\ UNCHANGED histVars
  /\ UNCHANGED procVars

Execute ==
  \/ ExecuteChainNull
  \/ ExecuteCommandEmpty
  \/ ExecuteStageProcess
  \/ ExecuteStagePwd
  \/ ExecuteStageHistory
  \/ HistoryCleanUp
  \/ HistoryReturn
  \/ ExecuteChainReturn

Next == Parse \/ Execute \/ CleanUp

Spec == Init /\ [][Next]_vars

(***************************************************************************)
(* parseTokens on lines with patterns, in several working directories.     *)
(***************************************************************************)
GlobLines ==
  {l \in SeqsUpTo(GlobVocabulary, MaxGlobTokens) \cup BangLines \cup BuiltinLines :
     MainParses(Join(l, " "))}

\* the files when the shell starts: f; a, f and fa; f and the home directory
GlobFiles ==
  {InitialFiles,
   [n \in {NameA, NameF, NameFA} |-> "data"],
   [n \in {NameF, HomeDir} |-> "data"]}

\* parseTokens when malloc, realloc and strndup may fail
AllocLines == QuotedLines \cup BangLines \cup BuiltinLines \cup PipeRedirLines

InitAlloc == \E line \in AllocLines : Start(<<>>, line)

ParseAlloc ==
  \/ Parse
  \/ ParseBeginCommandAllocFails
  \/ ParsePushArgsFails
  \/ ParsePlainCopyFails
  \/ ParseEndSegmentAllocFails

SpecAlloc == InitAlloc /\ [][ParseAlloc]_vars

InitGlob == \E line \in GlobLines, files \in GlobFiles : StartWith(<<>>, line, files)

SpecGlob == InitGlob /\ [][Parse]_vars

(***************************************************************************)
(* main at the call of tokenizeString: the line was read, it is not empty  *)
(* and not `exit`, and it is the last entry of the history.                *)
(***************************************************************************)
\* the characters of a line: a letter, the delimiter and both quotes
RawAlphabet == {"a", " ", "\"", "'"}

RawInputs == {s \in SeqsUpTo(RawAlphabet, MaxInputLength) : MainParses(s)}

\* the line main passes to tokenizeString
Input == history[Len(history)]

InitTok ==
  \E input \in RawInputs :
    /\ history = add_to_history(<<>>, input)
    /\ tokens = <<>>
    /\ strHeap = [tokenIds |-> <<>>, nTokens |-> 0, freed |-> <<>>]
    /\ pc = "tokenize"
    /\ chain = initCommandChain(0)
    /\ heap = <<>>
    /\ Booted(InitialFiles)

\* char** tokens = tokenizeString(input, delimiter); a write behind the token
\* array may end the process, or go unnoticed
MainTokenize ==
  /\ pc = "tokenize"
  /\ tokens' = tokenizeString(Input, " ")
  /\ strHeap' = [tokenIds |-> [k \in 1..Len(tokenizeString(Input, " ")) |-> k],
                 nTokens |-> Len(tokenizeString(Input, " ")),
                 freed |-> <<>>]
  /\ pc' \in IF tokenizeOverflows(Input, " ")
              THEN {"tokenized", "crashed"} ELSE {"tokenized"}
  /\ UNCHANGED <<idx, chain, command, simpleCommand, commandChain, parseErr, heap,
                 osVars, execVars, histVars, procVars>>

SpecTok == InitTok /\ [][MainTokenize]_vars

(***************************************************************************)
(* executeProcess at the grain of its system calls.  A child process has   *)
(* its own descriptor table, copied from the control process by fork; it   *)
(* ends as a zombie until a waitpid of the control process claims it.      *)
(* SIGCHLD is registered with signal(): the handler stays installed and an *)
(* interrupted waitpid is restarted.                                       *)
(***************************************************************************)
\* the names execvp finds a program for
Installed == {NameA, NameB}

\* what the programs do: a writes more than a pipe buffers to its standard
\* output, b reads its standard input to end-of-file; then they exit
WritesOf(name) == IF name = NameA THEN PipeCapacity + 1 ELSE 0
ReadsInput(name) == name = NameB

\* the status word waitpid stores: an exit code, or termination by a signal
NoStatus == [exited |-> FALSE, code |-> -1]
Exited(code) == [exited |-> TRUE, code |-> code]
Signaled == [exited |-> FALSE, code |-> 0]
\* bits 8 to 15 of the status word, zero when a signal ended the process
WEXITSTATUS(wstatus) == IF wstatus.exited THEN wstatus.code ELSE 0

EmptyTable == [d \in {} |-> Tty]

\* the child fork() creates for the SimpleCommand sc
NewChild(sc) ==
  [pid |-> nextPid, name |-> sc.commandName, inputFD |-> sc.inputFD,
   outputFD |-> sc.outputFD, stderrFD |-> sc.stderrFD, noWait |-> sc.noWait,
   fds |-> fdTable, state |-> "forked", toWrite |-> 0, toRead |-> FALSE,
   execFailed |-> FALSE, wstatus |-> NoStatus, reapedBy |-> "none", reapedWith |-> 0]

\* the process ends: its descriptors are closed, its parent is sent SIGCHLD
Terminated(c, wstatus) ==
  [c EXCEPT !.state = "zombie", !.fds = EmptyTable, !.wstatus = wstatus,
            !.toWrite = 0, !.toRead = FALSE]

\* the child goes on after a failed execvp as if it were the shell
ExecFailureReturns(c) == [c EXCEPT !.state = "returned", !.execFailed = TRUE]

\* executeProcess, child branch: `if (execvp(...) == -1) { LOG_ERROR(...); exit(1); }`
ExecFailure(c) == [Terminated(c, Exited(1)) EXCEPT !.execFailed = TRUE]

\* is an end of pipe k open in the control process or in a child?
Holds(table, end, k) == \E d \in DOMAIN table : table[d].kind = end /\ table[d].pipe = k
ControlAlive == pc \notin {"exited", "crashed"}
EndOpen(end, k) ==
  \/ ControlAlive /\ Holds(fdTable, end, k)
  \/ \E j \in DOMAIN procs : Holds(procs[j].fds, end, k)

\* the handler claims a single terminated child and returns
ReapOne(ps) ==
  LET zombies == {i \in DOMAIN ps : ps[i].state = "zombie"} IN
  IF zombies = {} THEN ps
  ELSE [ps EXCEPT ![CHOOSE i \in zombies : \A j \in zombies : i <= j] =
                    [@ EXCEPT !.state = "reaped", !.reapedBy = "handler", !.reapedWith = 1]]

\* sigchld_handler: waitpid(-1, &status, WNOHANG) until it returns no child
ReapAll(ps) ==
  LET zombies == {i \in DOMAIN ps : ps[i].state = "zombie"} IN
  [i \in DOMAIN ps |->
     IF i \in zombies
       THEN [ps[i] EXCEPT !.state = "reaped", !.reapedBy = "handler",
                          !.reapedWith = Cardinality(zombies)]
       ELSE ps[i]]

\* the SIGCHLD handler runs in the control process, between any two of its steps
\* or while it is blocked in waitpid
sigchld_handler ==
  /\ sigPending
  /\ ControlAlive
  /\ procs' = ReapAll(procs)
  /\ sigPending' = FALSE
  /\ UNCHANGED <<parseVars, heap, osVars, execVars, histVars, pc, pipeBuf, strHeap>>

\* executeProcess up to the return of fork() in the control process
ExecuteProcessFork ==
  /\ InExecuteCommand
  /\ CurSimple.execute = "executeProcess"
  /\ LET sc == WithNoWait(CurSimple) IN
       \/ \* no command name
          /\ sc.commandName = NullStr
          /\ StageRejected(sc)
          /\ UNCHANGED <<nextPid, procs, pc>>
       \/ \* fork() == -1
          /\ sc.commandName # NullStr
          /\ AfterHandler(sc, -1, fdTable, closeLog)
          /\ UNCHANGED <<nextPid, procs, pc>>
       \/ \* the parent: `if (!simpleCommand->noWait)` is false, return 0
          /\ sc.commandName # NullStr
          /\ sc.noWait # 0
          /\ Len(procs) < MaxChildren
          /\ procs' = Append(procs, NewChild(sc))
          /\ AfterHandler([sc EXCEPT !.pid = nextPid], 0, fdTable, closeLog)
          /\ nextPid' = nextPid + 1
          /\ UNCHANGED pc
       \/ \* the parent: on to waitpid(pid, &status, 0)
          /\ sc.commandName # NullStr
          /\ sc.noWait = 0
          /\ Len(procs) < MaxChildren
          /\ procs' = Append(procs, NewChild(sc))
          /\ chain' = [chain EXCEPT !.commands[cmdIdx + 1].simpleCommands[scIdx + 1] =
                                     [sc EXCEPT !.pid = nextPid]]
          /\ nextPid' = nextPid + 1
          /\ pc' = "waitpid"
          /\ UNCHANGED <<fdTable, closeLog, execVars>>
  /\ UNCHANGED <<tokens, idx, command, simpleCommand, commandChain, parseErr, heap>>
  /\ UNCHANGED <<fs, pipes, openedFDs, shellState, status, histVars, sigPending, pipeBuf>>
  /\ UNCHANGED strHeap

\* executeProcess: waitpid(pid, &status, 0) returns, and the rest of the loop
\* body of executeCommand
ExecuteProcessWait ==
  /\ pc = "waitpid"
  /\ LET sc == CurSimple
         i == CHOOSE j \in DOMAIN procs : procs[j].pid = sc.pid
     IN \/ \* the child has terminated: its status is collected
           /\ procs[i].state = "zombie"
           /\ procs' = [procs EXCEPT ![i].state = "reaped", ![i].reapedBy = "waitpid"]
           /\ AfterHandler(sc, WEXITSTATUS(procs[i].wstatus), fdTable, closeLog)
        \/ \* no such child any more: waitpid == -1 (ECHILD)
           /\ procs[i].state = "reaped"
           /\ AfterHandler(sc, -1, fdTable, closeLog)
           /\ UNCHANGED procs
  /\ pc' = "execute"
  /\ UNCHANGED <<tokens, idx, command, simpleCommand, commandChain, parseErr, heap>>
  /\ UNCHANGED <<fs, pipes, openedFDs, shellState, nextPid, status, histVars>>
  /\ UNCHANGED <<sigPending, pipeBuf, strHeap>>

\* what only the child processes and the signal change
controlVars == <<parseVars, heap, osVars, execVars, histVars, pc, strHeap>>

\* the child branch of executeProcess: setUpFD (its result is not looked at),
\* then execvp
ChildStart(i) ==
  /\ i \in DOMAIN procs
  /\ procs[i].state = "forked"
  /\ LET c == procs[i]
         st == setUpFD([fds |-> c.fds, sh |-> shellState, cl |-> <<>>, ok |-> TRUE],
                       c.inputFD, c.outputFD, c.stderrFD)
         set == [c EXCEPT !.fds = st.fds]
     IN IF c.name \in Installed
          THEN /\ procs' = [procs EXCEPT ![i] =
                              [set EXCEPT !.state = "running",
                                          !.toWrite = WritesOf(c.name),
                                          !.toRead = ReadsInput(c.name)]]
               /\ UNCHANGED sigPending
          ELSE /\ procs' = [procs EXCEPT ![i] = ExecFailure(set)]
               /\ sigPending' = TRUE
  /\ UNCHANGED <<controlVars, pipeBuf>>

\* a running program writes one unit of data to its standard output
ChildWrite(i) ==
  /\ i \in DOMAIN procs
  /\ procs[i].state = "running"
  /\ procs[i].toWrite > 0
  /\ LET c == procs[i]
         out == StdSlots(c.fds)[STDOUT_FD]
     IN IF out.kind # "pipe_w"
          THEN \* a terminal or a file takes it; a closed descriptor is an error
               /\ procs' = [procs EXCEPT ![i].toWrite = @ - 1]
               /\ UNCHANGED <<sigPending, pipeBuf>>
        ELSE IF ~EndOpen("pipe_r", out.pipe)
          THEN \* nobody can read: SIGPIPE ends the process
               /\ procs' = [procs EXCEPT ![i] = Terminated(c, Signaled)]
               /\ sigPending' = TRUE
               /\ UNCHANGED pipeBuf
        ELSE \* room in the buffer, or the write blocks
             /\ pipeBuf[out.pipe] < PipeCapacity
             /\ pipeBuf' = [pipeBuf EXCEPT ![out.pipe] = @ + 1]
             /\ procs' = [procs EXCEPT ![i].toWrite = @ - 1]
             /\ UNCHANGED sigPending
  /\ UNCHANGED controlVars

\* a running program reads from its standard input
ChildRead(i) ==
  /\ i \in DOMAIN procs
  /\ procs[i].state = "running"
  /\ procs[i].toRead
  /\ LET c == procs[i]
         in == StdSlots(c.fds)[STDIN_FD]
     IN IF in.kind # "pipe_r"
          THEN \* a file or a terminal ends, a closed descriptor is an error
               /\ procs' = [procs EXCEPT ![i].toRead = FALSE]
               /\ UNCHANGED pipeBuf
        ELSE IF pipeBuf[in.pipe] > 0
          THEN /\ pipeBuf' = [pipeBuf EXCEPT ![in.pipe] = @ - 1]
               /\ UNCHANGED procs
        ELSE \* end-of-file once no write end is open, or the read blocks
             /\ ~EndOpen("pipe_w", in.pipe)
             /\ procs' = [procs EXCEPT ![i].toRead = FALSE]
             /\ UNCHANGED pipeBuf
  /\ UNCHANGED <<controlVars, sigPending>>

\* a running program that is through with its data exits
ChildExit(i) ==
  /\ i \in DOMAIN procs
  /\ procs[i].state = "running"
  /\ procs[i].toWrite = 0
  /\ ~procs[i].toRead
  /\ \E code \in ExitCodes : procs' = [procs EXCEPT ![i] = Terminated(@, Exited(code))]
  /\ sigPending' = TRUE
  /\ UNCHANGED <<controlVars, pipeBuf>>

\* a running program is ended by a signal (a fault of its own, or a kill)
ChildKilled(i) ==
  /\ i \in DOMAIN procs
  /\ procs[i].state = "running"
  /\ procs' = [procs EXCEPT ![i] = Terminated(@, Signaled)]
  /\ sigPending' = TRUE
  /\ UNCHANGED <<controlVars, pipeBuf>>


\* the lines of the process-level runs, with what was typed before them
ProcCases ==
  {[prior |-> <<>>, line |-> <<NameA>>],
   [prior |-> <<>>, line |-> <<NameX>>],
   [prior |-> <<>>, line |-> <<NameA, TokAmp>>],
   [prior |-> <<>>, line |-> <<NameX, TokAmp, NameA, TokAmp>>],
   [prior |-> <<>>, line |-> <<NameA, TokPipe, NameB>>],
   [prior |-> <<>>, line |-> <<NameA, TokPipe, NameB, TokAmp>>],
   [prior |-> <<>>, line |-> <<NameB, TokPipe, NameB>>],
   [prior |-> <<>>, line |-> <<NameA, TokPipe, NameB, TokPipe, NameB, TokAmp>>],
   [prior |-> <<>>, line |-> <<NameA, TokAmp, NameA>>],
   [prior |-> <<>>, line |-> <<NameB, TokIn, NameF, TokAmp>>],
   [prior |-> <<>>, line |-> <<NameA, TokOut, NameF>>],
   [prior |-> <<>>, line |-> <<NameX, TokErr, NameF>>],
   [prior |-> <<>>, line |-> <<TokEmpty, NameA, TokSemi, TokSemi>>],
   [prior |-> <<>>, line |-> <<NameA, TokPipe>>],
   [prior |-> <<>>, line |-> <<NamePwd, TokPipe, NameB>>],
   [prior |-> <<NameA>>, line |-> <<NameHistory, Idx1>>],
   [prior |-> <<NameA>>, line |-> <<Bang1>>],
   [prior |-> <<>>, line |-> <<NameA, TokSemi, NameB>>],
   [prior |-> <<>>, line |-> <<NameA, TokSemi, NamePwd>>]}

InitProc == \E c \in ProcCases : Start(c.prior, c.line)

ExecuteProc ==
  \/ ExecuteChainNull
  \/ ExecuteCommandEmpty
  \/ ExecuteProcessFork
  \/ ExecuteProcessWait
  \/ ExecuteStagePwd
  \/ ExecuteStageHistory
  \/ HistoryCleanUp
  \/ HistoryReturn
  \/ ExecuteChainReturn

Control == Parse \/ ExecuteProc \/ CleanUp

Children ==
  \/ \E i \in DOMAIN procs : ChildStart(i)
  \/ \E i \in DOMAIN procs : ChildWrite(i)
  \/ \E i \in DOMAIN procs : ChildRead(i)
  \/ \E i \in DOMAIN procs : ChildExit(i)

NextProc == Control \/ sigchld_handler \/ Children

SpecProc == InitProc /\ [][NextProc]_vars

\* every step changes one of these
stepVars ==
  <<tokens, idx, pc, chain, command, simpleCommand, commandChain, heap, fdTable,
    cmdIdx, scIdx, invoked, executed, procs, sigPending, pipeBuf>>

\* the processes are scheduled and the signal is delivered: the system does
\* not stop while the control process, the handler or a child can take a step
FairSpecProc ==
  /\ SpecProc
  /\ WF_stepVars(NextProc)

\* the same processes when a signal may end a running program at any time
NextSignal ==
  \/ NextProc
  \/ \E i \in DOMAIN procs : ChildKilled(i)

SpecSignal == InitProc /\ [][NextSignal]_vars

(***************************************************************************)
(* Vocabulary of the properties.                                           *)
(***************************************************************************)
Range(seq) == {seq[k] : k \in DOMAIN seq}

\* parseTokens has just returned to main; nothing has been executed yet
ParseReturned == pc = "execute" /\ invoked = <<>> /\ executed = <<>>

\* the descriptor table main starts a line with
InitialTable == [d \in {STDIN_FD, STDOUT_FD, STDERR_FD} |-> Tty]

\* a plain word: no operator, not ignorable, no history bang
IsWord(token) ==
  /\ ~IS_CHAINING_OPERATOR(token)
  /\ ~IsOperator(token)
  /\ ~IGNORE(token)
  /\ ~(Len(token) > 1 /\ token[1] = "!")

\* the segments of a token sequence between its `|` tokens
RECURSIVE SplitAtPipes(_)
SplitAtPipes(toks) ==
  IF toks = <<>> THEN << <<>> >>
  ELSE LET rest == SplitAtPipes(Tail(toks)) IN
       IF IS_PIPE(Head(toks)) THEN << <<>> >> \o rest
       ELSE << <<Head(toks)>> \o Head(rest) >> \o Tail(rest)

NotIgnorable(token) == ~IGNORE(token)
WordsOf(segment) == SelectSeq(segment, NotIgnorable)

\* n >= 2 segments of words (and ignorable tokens), each with at least one word,
\* separated by n - 1 `|` tokens
IsPipeline(toks) ==
  /\ \A k \in DOMAIN toks : IS_PIPE(toks[k]) \/ IGNORE(toks[k]) \/ IsWord(toks[k])
  /\ Len(SplitAtPipes(toks)) >= 2
  /\ \A k \in DOMAIN SplitAtPipes(toks) : WordsOf(SplitAtPipes(toks)[k]) # <<>>

\* C1: for a token sequence of n >= 2 command segments separated by n - 1 `|`
\* tokens, when no pipe() call failed, parseTokens returns a chain with exactly
\* one Command of n SimpleCommands in token order (name and arguments of stage i
\* are the words of segment i), n - 1 pairwise distinct pipes were created, and
\* the outputFD of stage i is the write end of the pipe whose read end is the
\* inputFD of stage i + 1.
C1_PipelineWiring ==
  (ParseReturned /\ IsPipeline(tokens) /\ parseErr # "Failed to create pipe") =>
    LET segs == SplitAtPipes(tokens)
        n == Len(segs)
    IN /\ commandChain = "chain"
       /\ Len(chain.commands) = 1
       /\ chain.commands[1].nSimpleCommands = n
       /\ Len(chain.commands[1].simpleCommands) = n
       /\ Len(pipes) = n - 1
       /\ Cardinality(UNION {Range(pipes[k]) : k \in DOMAIN pipes}) = 2 * (n - 1)
       /\ \A i \in 1..n :
            LET sc == chain.commands[1].simpleCommands[i] IN
            /\ sc.args = WordsOf(segs[i])
            /\ sc.commandName = Head(WordsOf(segs[i]))
            /\ sc.argc = Len(WordsOf(segs[i]))
       /\ \A i \in 1..(n - 1) :
            LET producer == chain.commands[1].simpleCommands[i]
                consumer == chain.commands[1].simpleCommands[i + 1]
            IN /\ producer.outputFD = pipes[i][PIPE_WRITE_END + 1]
               /\ consumer.inputFD = pipes[i][PIPE_READ_END + 1]
               /\ fdTable[producer.outputFD].kind = "pipe_w"
               /\ fdTable[consumer.inputFD].kind = "pipe_r"
               /\ fdTable[producer.outputFD].pipe = fdTable[consumer.inputFD].pipe

\* a three-stage pipeline has been parsed
C1_Witness ==
  /\ ParseReturned
  /\ IsPipeline(tokens)
  /\ commandChain = "chain"
  /\ Len(chain.commands) = 1
  /\ chain.commands[1].nSimpleCommands = 3
  /\ Len(pipes) = 2

\* C2: if the handler of stage i returned a non-zero status, no handler of a
\* stage j > i of that Command has been invoked and executeCommand returned
\* exactly that status.
C2_PipelineShortCircuit ==
  \A k \in DOMAIN invoked :
    invoked[k].status # 0 =>
      /\ \A j \in DOMAIN invoked :
           invoked[j].command = invoked[k].command => invoked[j].stage <= invoked[k].stage
      /\ \E e \in DOMAIN executed :
           /\ executed[e].command = invoked[k].command
           /\ executed[e].status = invoked[k].status

\* the first stage of a two-stage pipeline failed and the line is finished
C2_Witness ==
  /\ pc = "done"
  /\ \E k \in DOMAIN invoked :
       /\ invoked[k].status # 0
       /\ invoked[k].stage = 1
       /\ chain.commands[invoked[k].command].nSimpleCommands >= 2

\* C3: when executeCommandChain returns, executeCommand has been called on
\* every Command of the chain, in chain order, whatever the earlier Commands
\* reported, and the value returned is the status of the last Command.
C3_ChainRunsEveryCommand ==
  (pc \in {"cleanup", "done"} /\ commandChain = "chain") =>
    /\ Len(executed) = Len(chain.commands)
    /\ \A k \in DOMAIN executed : executed[k].command = k
    /\ status = IF executed = <<>> THEN 0 ELSE executed[Len(executed)].status

\* the first Command failed, the second one still ran its handler and succeeded
C3_Witness ==
  /\ pc = "done"
  /\ commandChain = "chain"
  /\ Len(executed) = 2
  /\ executed[1].status # 0
  /\ executed[2].status = 0
  /\ status = 0
  /\ \E k \in DOMAIN invoked : invoked[k].command = 2

\* C4: after a parse -> execute -> clean-up cycle every descriptor obtained
\* from pipe() or open() during the parse has been closed exactly once in the
\* control process, and the set of open descriptors is the one before parsing.
C4_DescriptorsClosedOnce ==
  (pc = "done" /\ commandChain = "chain") =>
    /\ \A fd \in Range(openedFDs) : Occurrences(closeLog, fd) = 1
    /\ DOMAIN fdTable = DOMAIN InitialTable

\* C5: when parseTokens returns NULL, every descriptor it obtained from pipe()
\* or open() has been closed and the descriptor table is as before the parse.
C5_FailedParseClosesDescriptors ==
  (ParseReturned /\ commandChain = "NULL") =>
    /\ \A fd \in Range(openedFDs) : Occurrences(closeLog, fd) = 1
    /\ fdTable = InitialTable

\* C6: when parseTokens returns NULL, every CommandChain, Command and
\* SimpleCommand allocated during the call has been freed exactly once.
C6_FailedParseFreesStructures ==
  (ParseReturned /\ commandChain = "NULL") =>
    \A i \in DOMAIN heap : heap[i].frees = 1

\* the stream of the SimpleCommand under construction already refers to a
\* descriptor that pipe() or open() returned during this parse
StreamBoundTo(fd) == fd \in Range(openedFDs)

\* C7: parseTokens returns NULL whenever it reaches an operator that binds a
\* stream of the current SimpleCommand which is already bound: `>`, `>>` or `|`
\* after an output redirection, `<` after an input redirection or on the reader
\* of a pipe, `2>` after a stderr redirection.
C7_DoubleBindingAborts ==
  [][(/\ InFor
      /\ \/ (IS_FILE_OUT_REDIR(Tok) \/ IS_PIPE(Tok)) /\ StreamBoundTo(simpleCommand.outputFD)
         \/ IS_FILE_IN_REDIR(Tok) /\ StreamBoundTo(simpleCommand.inputFD)
         \/ IS_STDERR_REDIR(Tok) /\ StreamBoundTo(simpleCommand.stderrFD))
     => commandChain' = "NULL"]_vars

\* a `<` was met on the reader of a pipe and the parse gave up
C7_Witness ==
  /\ ParseReturned
  /\ commandChain = "NULL"
  /\ parseErr = "Cannot redirect input from multiple files"
  /\ Len(pipes) = 1

\* C8: parseTokens returns NULL whenever it reaches `|`, `>` or `>>` while the
\* current SimpleCommand has no command name.
C8_OperatorWithoutCommandAborts ==
  [][(/\ InFor
      /\ (IS_PIPE(Tok) \/ IS_FILE_OUT_REDIR(Tok))
      /\ simpleCommand.commandName = NullStr)
     => commandChain' = "NULL"]_vars

\* a second `|` directly after a first one made the parse give up
C8_Witness ==
  /\ ParseReturned
  /\ commandChain = "NULL"
  /\ parseErr = "Parse error near"
  /\ Len(pipes) = 1

\* C9: parseTokens returns NULL whenever it reaches `;` or `&` while the
\* current SimpleCommand has no command name.
C9_ChainingWithoutCommandAborts ==
  [][(/\ pc = "parse_inner"
      /\ IS_CHAINING_OPERATOR(Tok)
      /\ simpleCommand.commandName = NullStr)
     => commandChain' = "NULL"]_vars

\* C10: once parseTokens has returned NULL, no handler is invoked and no
\* Command executed, executeCommandChain returns -1 and cleanUpCommandChain
\* frees nothing.
C10_NullChainDoesNothing ==
  [][commandChain = "NULL" =>
       /\ invoked' = <<>>
       /\ executed' = <<>>
       /\ (pc = "execute" => status' = -1)
       /\ (pc = "cleanup" => heap' = heap)]_vars

\* a line whose parse failed has been through execution and clean-up
C10_Witness ==
  /\ pc = "done"
  /\ commandChain = "NULL"
  /\ status = -1
  /\ parseErr # ""

\* C11: whenever pwd or history has returned to executeCommand, with status
\* zero or not, the standard input, output and error slots of the control
\* process refer to the same open files as when the handler was invoked.
C11_BuiltinRestoresStreams ==
  \A k \in DOMAIN invoked :
    invoked[k].handler \in {"pwd", "history"} => invoked[k].stdAfter = invoked[k].stdBefore

\* the SimpleCommand a handler invocation of the log was made for
StageOf(entry) == chain.commands[entry.command].simpleCommands[entry.stage]

\* C12: the SIGCHLD handler never claims a child the control process waits
\* for in the foreground, and executeProcess never returns -1 for a
\* SimpleCommand whose fork succeeded.
C12_ForegroundWaitObtainsStatus ==
  /\ \A i \in DOMAIN procs : procs[i].noWait = 0 => procs[i].reapedBy # "handler"
  /\ \A k \in DOMAIN invoked :
       (invoked[k].handler = "executeProcess" /\ StageOf(invoked[k]).pid # -1)
         => invoked[k].status # -1

\* C13: once the first stage of the foreground pipeline `a | b` has been
\* spawned (a writes more than the pipe buffers, b reads to end-of-file),
\* both processes eventually terminate and executeCommand returns.
C13_ForegroundPipelineTerminates ==
  (/\ stack = <<>>
   /\ tokens = <<NameA, TokPipe, NameB>>
   /\ commandChain = "chain"
   /\ procs # <<>>)
    ~> (/\ executed # <<>>
        /\ Len(procs) = 2
        /\ \A i \in DOMAIN procs : procs[i].state \in {"zombie", "reaped"})

\* every stage of the Command is an external command
AllExternal(cmd) ==
  \A j \in DOMAIN cmd.simpleCommands : cmd.simpleCommands[j].execute = "executeProcess"

\* C14: the step in which a fire-and-forget child is forked is the step in
\* which executeProcess returns 0, the child not having terminated; and a
\* background Command of external commands none of whose forks failed has
\* spawned a process for every stage and returned 0, whatever the exit codes.
C14_FireAndForgetReturnsZero ==
  /\ [][(Len(procs') = Len(procs) + 1 /\ procs'[Len(procs')].noWait # 0)
          => /\ Len(invoked') = Len(invoked) + 1
             /\ invoked'[Len(invoked')].handler = "executeProcess"
             /\ invoked'[Len(invoked')].status = 0
             /\ procs'[Len(procs')].state = "forked"]_vars
  /\ [](\A e \in DOMAIN executed :
          LET cmd == chain.commands[executed[e].command]
              forkFailed == \E j \in DOMAIN cmd.simpleCommands :
                              cmd.simpleCommands[j].pid = -1
          IN (cmd.background /\ cmd.nSimpleCommands > 0 /\ AllExternal(cmd) /\ ~forkFailed)
               => /\ executed[e].status = 0
                  /\ \A j \in DOMAIN cmd.simpleCommands :
                       \E i \in DOMAIN procs :
                         /\ procs[i].pid = cmd.simpleCommands[j].pid
                         /\ procs[i].noWait # 0)

\* the background pipeline `a | b &` returned 0 and its last stage has since
\* exited with a non-zero code
C14_Witness ==
  /\ pc = "done"
  /\ status = 0
  /\ chain.commands[1].background
  /\ chain.commands[1].nSimpleCommands = 2
  /\ Len(procs) = 2
  /\ procs[2].noWait # 0
  /\ procs[2].wstatus = Exited(1)

\* C15: every fire-and-forget child that has terminated is eventually
\* claimed by the SIGCHLD handler, also when several children terminated
\* before the handler ran.
C15_BackgroundChildrenReaped ==
  \A i \in 1..MaxChildren :
    (i \in DOMAIN procs /\ procs[i].noWait # 0 /\ procs[i].state = "zombie")
      ~> (i \in DOMAIN procs /\ procs[i].state = "reaped" /\ procs[i].reapedBy = "handler")

\* one run of the handler claimed two fire-and-forget children
C15_Witness ==
  \E i \in DOMAIN procs :
    /\ procs[i].noWait # 0
    /\ procs[i].reapedBy = "handler"
    /\ procs[i].reapedWith >= 2

\* C16: a child process is never in the control flow of the shell: it is
\* before execvp, runs the program, or has terminated; and a child whose
\* execvp failed has exited with a non-zero code.
C16_FailedExecEndsChild ==
  \A i \in DOMAIN procs :
    /\ procs[i].state \in {"forked", "running", "zombie", "reaped"}
    /\ procs[i].execFailed =>
         /\ procs[i].state \in {"zombie", "reaped"}
         /\ procs[i].wstatus.exited
         /\ procs[i].wstatus.code # 0

\* the execvp of a foreground child failed and the control process collected
\* its status
C16_Witness ==
  \E i \in DOMAIN procs :
    /\ procs[i].execFailed
    /\ procs[i].noWait = 0
    /\ procs[i].reapedBy = "waitpid"
    /\ \E k \in DOMAIN invoked : invoked[k].status = 1

\* the position of the `>` or `>>` of a line `name args... > file`: words (and
\* ignorable tokens) before it, then ignorable tokens, then the file name as
\* the last token
IsOutRedirAt(toks, k) ==
  /\ k \in DOMAIN toks
  /\ IS_FILE_OUT_REDIR(toks[k])
  /\ \A j \in 1..(k - 1) : IsWord(toks[j]) \/ IGNORE(toks[j])
  /\ WordsOf(SubSeq(toks, 1, k - 1)) # <<>>
  /\ Len(toks) > k
  /\ \A j \in (k + 1)..(Len(toks) - 1) : IGNORE(toks[j])
  /\ ~IGNORE(toks[Len(toks)])

\* C17: for the tokens `name args... > file` (or `>>`), parseTokens returns one
\* Command of one SimpleCommand named name whose args are name and the args
\* (neither the operator nor the file name), and whose outputFD is the
\* descriptor of the open of the first non-ignorable token after the operator:
\* the file is created, emptied by `>`, and keeps its content with `>>`.
C17_OutputRedirection ==
  \A k \in DOMAIN tokens :
    (ParseReturned /\ stack = <<>> /\ IsOutRedirAt(tokens, k)) =>
      LET words == WordsOf(SubSeq(tokens, 1, k - 1))
          file == tokens[Len(tokens)]
      IN /\ commandChain = "chain"
         /\ Len(chain.commands) = 1
         /\ chain.commands[1].nSimpleCommands = 1
         /\ Len(chain.commands[1].simpleCommands) = 1
         /\ LET sc == chain.commands[1].simpleCommands[1] IN
              /\ sc.commandName = Head(words)
              /\ sc.args = words
              /\ sc.argc = Len(words)
              /\ sc.inputFD = STDIN_FD
              /\ sc.stderrFD = STDERR_FD
              /\ openedFDs = <<sc.outputFD>>
              /\ sc.outputFD \notin {STDIN_FD, STDOUT_FD, STDERR_FD}
              /\ sc.outputFD \in DOMAIN fdTable
              /\ fdTable[sc.outputFD] = FileRef(file)
              /\ file \in DOMAIN fs
              /\ fs[file] = IF tokens[k] = TokAppend /\ file \in DOMAIN InitialFiles
                              THEN InitialFiles[file] ELSE "empty"

\* `a >> "" f` has been parsed: f is open for appending and kept its content
C17_Witness ==
  /\ ParseReturned
  /\ stack = <<>>
  /\ tokens = <<NameA, TokAppend, TokEmpty, NameF>>
  /\ commandChain = "chain"
  /\ chain.commands[1].simpleCommands[1].args = <<NameA>>
  /\ fdTable[chain.commands[1].simpleCommands[1].outputFD] = FileRef(NameF)
  /\ fs[NameF] = "data"

\* the first token after position i that is not ignorable (Len(toks) + 1: none)
RECURSIVE NextNotIgnorable(_, _)
NextNotIgnorable(toks, i) ==
  IF i + 1 > Len(toks) \/ ~IGNORE(toks[i + 1]) THEN i + 1 ELSE NextNotIgnorable(toks, i + 1)

\* the tokens that end the segments of toks from position i on: every `;` and
\* `&` that is not the file name of a redirection, and NULL for a last segment
\* that runs to the end of the tokens
RECURSIVE SegmentEnds(_, _, _)
SegmentEnds(toks, i, inSegment) ==
  IF i > Len(toks) THEN (IF inSegment THEN <<NullStr>> ELSE <<>>)
  ELSE IF toks[i] = TokSemi \/ toks[i] = TokAmp
    THEN <<toks[i]>> \o SegmentEnds(toks, i + 1, FALSE)
  ELSE IF toks[i] \in {TokOut, TokAppend, TokIn, TokErr}
    THEN SegmentEnds(toks, NextNotIgnorable(toks, i) + 1, TRUE)
  ELSE SegmentEnds(toks, i + 1, TRUE)

\* C18: every Command of a chain parseTokens returned has as chainingOperator
\* the `;` or `&` token that ended its segment (NULL when the segment ended
\* with the tokens), and is a background Command exactly when it is `&`.
C18_ChainingOperatorRecorded ==
  (ParseReturned /\ commandChain = "chain") =>
    LET ends == SegmentEnds(tokens, 1, FALSE) IN
    /\ Len(chain.commands) = Len(ends)
    /\ \A k \in DOMAIN chain.commands :
         /\ chain.commands[k].chainingOperator = ends[k]
         /\ chain.commands[k].background = (ends[k] = TokAmp)

\* `a ; a &` has been parsed into the Commands (`;`, false) and (`&`, true)
C18_Witness ==
  /\ ParseReturned
  /\ tokens = <<NameA, TokSemi, NameA, TokAmp>>
  /\ commandChain = "chain"
  /\ Len(chain.commands) = 2
  /\ chain.commands[1].chainingOperator = TokSemi
  /\ ~chain.commands[1].background
  /\ chain.commands[2].chainingOperator = TokAmp
  /\ chain.commands[2].background

\* parseTokens is at a plain token: the next step strips its quotes and
\* expands it
AtPlainToken ==
  /\ InFor
  /\ ~IsOperator(Tok)
  /\ ~IGNORE(Tok)
  /\ ~IsHistoryBang(simpleCommand, Tok)

\* C19: a plain token (not a `~` form, which the home directory replaces) whose
\* quote-stripped pattern matches no entry of the working directory adds
\* exactly one argument to the current SimpleCommand, the pattern itself, and
\* parseTokens goes on to the next token without an error.
C19_NoMatchKeepsPattern ==
  [][(/\ AtPlainToken
      /\ (removeQuotes(Tok) = <<>> \/ Head(removeQuotes(Tok)) # "~")
      /\ \A n \in InWorkingDir(fs) : ~fnmatch(removeQuotes(Tok), n))
       => /\ simpleCommand'.args = Append(simpleCommand.args, removeQuotes(Tok))
          /\ simpleCommand'.argc = simpleCommand.argc + 1
          /\ parseErr' = ""
          /\ commandChain' = commandChain
          /\ pc' = "parse_inner"
          /\ idx' = idx + 1]_vars

\* `a z* *` has been parsed where a, f and fa exist: z* stayed, * became three
\* arguments
C19_Witness ==
  /\ ParseReturned
  /\ tokens = <<NameA, PatZ, PatAll>>
  /\ commandChain = "chain"
  /\ chain.commands[1].simpleCommands[1].args = <<NameA, PatZ, NameA, NameF, NameFA>>

\* C20: whatever the line, parsed to a chain or given up, executed or not, no
\* CommandChain, Command or SimpleCommand and no argument, command-name,
\* operator or token string is passed to free() more than once by parseTokens,
\* freeTokens and cleanUpCommandChain.
C20_NoDoubleFree ==
  /\ \A i \in DOMAIN heap : heap[i].frees <= 1
  /\ \A j, k \in DOMAIN strHeap.freed :
       j # k => strHeap.freed[j] # strHeap.freed[k]

\* the line `"a" | 'f'` is done: both tokens were replaced in place, and the
\* five token blocks, two names and two arguments are freed, each once
C20_Witness ==
  /\ pc = "done"
  /\ stack = <<>>
  /\ tokens = <<NameA, TokPipe, NameF>>
  /\ commandChain = "chain"
  /\ strHeap.nTokens = 5
  /\ Len(strHeap.freed) = 9
  /\ \E i \in DOMAIN heap : heap[i].type = "SimpleCommand" /\ heap[i].frees = 1


\* a parse step at a token that is no operator, not empty, and starts with `!`
AtBangToken == InFor /\ ~IsOperator(Tok) /\ ~IGNORE(Tok) /\ Tok[1] = "!"

\* C21: a token of two characters or more that starts with `!`, met while the
\* SimpleCommand has no command name, makes the SimpleCommand `history` with
\* the arguments "history" and the token without its `!`, quotes and patterns
\* kept as typed; met after the command name it is pushed as a plain token
C21_HistoryBang ==
  [][/\ (AtBangToken /\ Len(Tok) >= 2 /\ simpleCommand.commandName = NullStr)
          => /\ simpleCommand'.commandName = NameHistory
             /\ simpleCommand'.args = <<NameHistory, SubSeq(Tok, 2, Len(Tok))>>
             /\ simpleCommand'.argc = 2
             /\ tokens' = tokens
     /\ (AtBangToken /\ simpleCommand.commandName # NullStr)
          => /\ simpleCommand'.commandName = simpleCommand.commandName
             /\ simpleCommand'.args = simpleCommand.args \o glob(removeQuotes(Tok), fs)]_vars

\* `!f*` was parsed in a directory with files f and fa: the pattern is the argument
C21_Witness ==
  /\ ParseReturned
  /\ NameFA \in DOMAIN fs
  /\ \E c \in 1..Len(chain.commands) :
       \E k \in 1..Len(chain.commands[c].simpleCommands) :
         chain.commands[c].simpleCommands[k].args = <<NameHistory, PatF>>


\* the history builtin is about to look up a numeric argument
AtHistoryIndex ==
  /\ InExecuteCommand
  /\ CurSimple.execute = "history"
  /\ CurSimple.argc = 2
  /\ IsAllDigits(CurSimple.args[2])

\* C22: get_command returns the line at the index when 1 <= index <= size and
\* NULL otherwise, index 0 included, and the shell does not fault in the lookup
C22_GetCommandNullOutOfRange ==
  [][AtHistoryIndex =>
       /\ get_command(history, atoi(CurSimple.args[2])) # Fault
       /\ pc' # "crashed"]_vars


\* the descriptors of a SimpleCommand that are not the three standard streams
OwnDescriptors(sc) ==
  ({sc.inputFD} \ {STDIN_FD}) \cup ({sc.outputFD} \ {STDOUT_FD}) \cup ({sc.stderrFD} \ {STDERR_FD})

\* C23: once the handler of a SimpleCommand has returned, whatever its status
\* and whether it is a builtin or executeProcess, every descriptor of that
\* SimpleCommand other than 0, 1 and 2 has been closed by the control process
\* exactly once
C23_DescriptorsClosedOnce ==
  (stack = <<>> /\ pc \in {"execute", "cleanup"}
     /\ \A k \in DOMAIN invoked : invoked[k].handler # "history")
    => \A k \in DOMAIN invoked :
         \A fd \in OwnDescriptors(chain.commands[invoked[k].command].simpleCommands[invoked[k].stage]) :
           Occurrences(closeLog, fd) = 1


\* what an open descriptor refers to
KindOf(fd) == IF fd \in DOMAIN fdTable THEN fdTable[fd].kind ELSE "closed"

\* C24: in every Command of a chain parseTokens returned, the input of each
\* stage after the first is the read end of the pipe whose write end is the
\* output of the stage before it, and the output of each stage before the last
\* is the write end of a pipe: a file is the input of the first stage or the
\* output of the last one only
C24_InteriorStagesUsePipes ==
  (ParseReturned /\ commandChain = "chain") =>
    \A c \in DOMAIN chain.commands :
      LET scs == chain.commands[c].simpleCommands IN
        \A i \in DOMAIN scs :
          /\ i > 1 => /\ KindOf(scs[i].inputFD) = "pipe_r"
                      /\ KindOf(scs[i - 1].outputFD) = "pipe_w"
                      /\ fdTable[scs[i].inputFD].pipe = fdTable[scs[i - 1].outputFD].pipe
          /\ i < Len(scs) => KindOf(scs[i].outputFD) = "pipe_w"
          /\ KindOf(scs[i].inputFD) = "file" => i = 1
          /\ KindOf(scs[i].outputFD) = "file" => i = Len(scs)

\* `a < f | a > f` was parsed: a file at each end of a pipeline of two stages
C24_Witness ==
  /\ ParseReturned
  /\ commandChain = "chain"
  /\ \E c \in DOMAIN chain.commands :
       /\ Len(chain.commands[c].simpleCommands) = 2
       /\ KindOf(chain.commands[c].simpleCommands[1].inputFD) = "file"
       /\ KindOf(chain.commands[c].simpleCommands[1].outputFD) = "pipe_w"
       /\ KindOf(chain.commands[c].simpleCommands[2].inputFD) = "pipe_r"
       /\ KindOf(chain.commands[c].simpleCommands[2].outputFD) = "file"


\* the descriptors parseTokens assigned to the stages of a Command
StageDescriptors(cmd) ==
  UNION {{cmd.simpleCommands[s].inputFD, cmd.simpleCommands[s].outputFD} :
           s \in DOMAIN cmd.simpleCommands}

\* C25: in the process just spawned for a stage of a pipeline, the only open
\* pipe descriptors of the stage's Command are the stage's own inputFD and
\* outputFD: no read end of the pipe it writes to, no end of a later pipe
C25_ChildHoldsOnlyItsPipeEnds ==
  \A i \in DOMAIN procs :
    procs[i].state = "forked" =>
      \A c \in DOMAIN chain.commands :
        \A s \in DOMAIN chain.commands[c].simpleCommands :
          chain.commands[c].simpleCommands[s].pid = procs[i].pid =>
            \A d \in DOMAIN procs[i].fds \cap StageDescriptors(chain.commands[c]) :
              procs[i].fds[d].kind \in {"pipe_r", "pipe_w"} =>
                d \in {procs[i].inputFD, procs[i].outputFD}


\* a step inside one parseTokens -> executeCommandChain cycle: it neither
\* enters the cycle of a recalled line nor goes back to the cycle that recalled
StaysInCycle == stack' = stack /\ ~(pc = "cleanup" /\ stack # <<>>)

\* C26: within one cycle every pipe() and open() of the line is done before
\* the first handler of the line is invoked, and a `<` whose file does not
\* exist when the parse reaches it makes parseTokens return NULL, after which
\* no Command of the line is executed, the ones before the `<` included
C26_OpenedBeforeExecution ==
  [][/\ (StaysInCycle /\ (openedFDs' # openedFDs \/ pipes' # pipes))
          => /\ pc = "parse_inner"
             /\ invoked = <<>> /\ executed = <<>>
             /\ invoked' = <<>> /\ executed' = <<>>
     /\ (InFor /\ IS_FILE_IN_REDIR(Tok) /\ TokenAt(FileNameIndex(idx)) \notin DOMAIN fs)
          => /\ commandChain' = "NULL"
             /\ pc' = "execute"
             /\ invoked' = <<>> /\ executed' = <<>>
     /\ (commandChain = "NULL" /\ StaysInCycle)
          => /\ commandChain' = "NULL"
             /\ invoked' = <<>> /\ executed' = <<>>]_vars

\* `a > f ; a < x ; a` ran its whole cycle: f was opened, x was missing,
\* nothing was executed
C26_Witness ==
  /\ pc = "done"
  /\ parseErr = "Failed to open file for input redirection"
  /\ commandChain = "NULL"
  /\ Len(openedFDs) = 1
  /\ \E k \in DOMAIN tokens : k > 2 /\ IS_FILE_IN_REDIR(tokens[k]) /\ IS_CHAINING_OPERATOR(tokens[k - 2])
  /\ invoked = <<>> /\ executed = <<>>


\* the handler the command registry gives a name
RegistryHandler(name) ==
  CASE name = NameCd -> "cd"
    [] name = NamePwd -> "pwd"
    [] name = NameExit -> "exitShell"
    [] name = NameHistory -> "history"
    [] name = NamePrompt -> "prompt"
    [] OTHER -> "executeProcess"

\* C27: every SimpleCommand of a chain parseTokens returned has at least one
\* argument, argc counts exactly the arguments before the end of args (where
\* the NULL sentinel is), no argument is NULL, commandName is args[0] and
\* execute is the handler of commandName: the builtin for cd, pwd, exit,
\* history and prompt, executeProcess for any other name, never NULL
C27_SimpleCommandWellFormed ==
  (ParseReturned /\ commandChain = "chain") =>
    \A c \in DOMAIN chain.commands :
      \A k \in DOMAIN chain.commands[c].simpleCommands :
        LET sc == chain.commands[c].simpleCommands[k] IN
          /\ sc.argc >= 1
          /\ Len(sc.args) = sc.argc
          /\ \A a \in DOMAIN sc.args : sc.args[a] # NullStr
          /\ sc.commandName = sc.args[1]
          /\ sc.execute = RegistryHandler(sc.commandName)
          /\ sc.execute # "NULL"

\* `cd | exit | prompt` was parsed: three builtins of the registry in one Command
C27_Witness ==
  /\ ParseReturned
  /\ commandChain = "chain"
  /\ Len(chain.commands) = 1
  /\ Len(chain.commands[1].simpleCommands) = 3
  /\ chain.commands[1].simpleCommands[1].execute = "cd"
  /\ chain.commands[1].simpleCommands[2].execute = "exitShell"
  /\ chain.commands[1].simpleCommands[3].execute = "prompt"


\* a token sequence without its empty-string tokens
WithoutEmptyTokens(toks) == SelectSeq(toks, LAMBDA t : t # TokEmpty)

\* the Commands the while loop of parseTokens makes of a token sequence: one
\* for each segment
CommandsOf(toks) == Len(SegmentEnds(toks, 1, FALSE))

\* no token is written with quotes
Unquoted(toks) == \A k \in DOMAIN toks : \A j \in DOMAIN toks[k] : toks[k][j] \notin {"\"", "'"}

\* C28: empty-string tokens do not change what parseTokens returns: the chain
\* of a token sequence has as many Commands as the chain of the same sequence
\* without its empty tokens
C28_EmptyTokensIgnored ==
  (ParseReturned /\ stack = <<>> /\ commandChain = "chain" /\ Unquoted(tokens))
    => Len(chain.commands) = CommandsOf(WithoutEmptyTokens(tokens))


\* the processes spawned for the stages of a Command have all terminated
ProcessesTerminated(cmd) ==
  \A s \in DOMAIN cmd.simpleCommands :
    \A i \in DOMAIN procs :
      procs[i].pid = cmd.simpleCommands[s].pid => procs[i].state \in {"zombie", "reaped"}

\* the control process enters a handler in this step
HandlerInvoked ==
  /\ InExecuteCommand
  /\ (Len(invoked') > Len(invoked) \/ pc' = "waitpid" \/ stack' # stack)

\* C29: when a handler of a Command is invoked, every process spawned for a
\* Command before it that is in the foreground and made of external commands
\* has terminated; a process still running then belongs to a Command with `&`
C29_ForegroundBlocks ==
  [][HandlerInvoked =>
       \A c \in 1..cmdIdx :
         (~chain.commands[c].background /\ AllExternal(chain.commands[c]))
           => ProcessesTerminated(chain.commands[c])]_vars

\* `a ; b`: the handler of b has been invoked after the process of a ended
C29_Witness ==
  /\ commandChain = "chain"
  /\ Len(chain.commands) = 2
  /\ ~chain.commands[1].background
  /\ AllExternal(chain.commands[1])
  /\ Len(chain.commands[1].simpleCommands) = 1
  /\ Len(chain.commands[2].simpleCommands) = 1
  /\ \E i \in DOMAIN procs :
       /\ procs[i].pid = chain.commands[1].simpleCommands[1].pid
       /\ procs[i].state \in {"zombie", "reaped"}
  /\ \E i \in DOMAIN procs : procs[i].pid = chain.commands[2].simpleCommands[1].pid


\* C30: when an allocation fails during parseTokens the result is NULL: a
\* chain that is returned has no NULL argument, no SimpleCommand without its
\* name, and no Command without the operator that ended its segment
C30_AllocationFailureReturnsNull ==
  (ParseReturned /\ commandChain = "chain") =>
    /\ \A c \in DOMAIN chain.commands :
         \A k \in DOMAIN chain.commands[c].simpleCommands :
           /\ chain.commands[c].simpleCommands[k].commandName # NullStr
           /\ \A a \in DOMAIN chain.commands[c].simpleCommands[k].args :
                chain.commands[c].simpleCommands[k].args[a] # NullStr
    /\ \A c \in DOMAIN chain.commands :
         c <= Len(SegmentEnds(tokens, 1, FALSE))
           => (chain.commands[c].chainingOperator = NullStr
                 => SegmentEnds(tokens, 1, FALSE)[c] = NullStr)


\* C31: for a foreground external command whose child the wait collected,
\* executeProcess returns 0 only if the child exited with code 0, the exit
\* code if that is not 0, and a non-zero status if a signal ended the child
C31_TerminationStatusTranslated ==
  \A k \in DOMAIN invoked :
    \A i \in DOMAIN procs :
      (/\ stack = <<>>
       /\ commandChain = "chain"
       /\ invoked[k].handler = "executeProcess"
       /\ procs[i].pid = StageOf(invoked[k]).pid
       /\ procs[i].noWait = 0
       /\ procs[i].reapedBy = "waitpid")
        => /\ invoked[k].status = 0 => (procs[i].wstatus.exited /\ procs[i].wstatus.code = 0)
           /\ (procs[i].wstatus.exited /\ procs[i].wstatus.code # 0)
                => invoked[k].status = procs[i].wstatus.code
           /\ ~procs[i].wstatus.exited => invoked[k].status # 0

(***************************************************************************)
(* The tokenizer as a function of the line.                                *)
(***************************************************************************)
IsQuote(c) == c = "\"" \/ c = "'"

\* a quoted region begins at a quote and ends at the next quote
InsideQuotedRegion(s, i) == Cardinality({j \in 1..(i - 1) : IsQuote(s[j])}) % 2 = 1

UnquotedDelimiters(s, d) == {i \in DOMAIN s : s[i] = d /\ ~InsideQuotedRegion(s, i)}

\* the k-th position of a set of positions, and the position before the
\* first and behind the last
NthOf(P, k, n) ==
  IF k = 0 THEN 0
  ELSE IF k > Cardinality(P) THEN n + 1
  ELSE CHOOSE p \in P : Cardinality({q \in P : q < p}) = k - 1

\* the pieces of s between the positions of P
PiecesBetween(s, P) ==
  [k \in 1..(Cardinality(P) + 1) |->
     SubSeq(s, NthOf(P, k - 1, Len(s)) + 1, NthOf(P, k, Len(s)) - 1)]

C38_TokensFitArray ==
  pc \in {"tokenized", "crashed"} => Len(tokens) <= Len(Input)

\* C33: every Command of a chain parseTokens returned holds at least one
\* SimpleCommand: a segment that ends without a named SimpleCommand adds no
\* Command to the chain
C33_CommandsHaveSimpleCommands ==
  (stack = <<>> /\ commandChain = "chain" /\ pc = "execute" /\ invoked = <<>>) =>
    \A k \in DOMAIN chain.commands :
      /\ chain.commands[k].nSimpleCommands >= 1
      /\ Len(chain.commands[k].simpleCommands) >= 1

\* C34: a history recall terminates with a bounded nesting of line cycles.
\* The history does not change during a recall, so a typed line whose recall
\* yields the typed line again would nest without end: no recall does
C34_RecallDoesNotRecallItself ==
  [][(stack = <<>> /\ Len(stack') = 1) => tokens' # tokenizeString(Input, " ")]_vars

\* the pipe a live process reads its standard input from (0: none): the
\* stage's inputFD before the child's setUpFD, descriptor 0 after it
FeedingPipe(c) ==
  LET ref == IF c.state = "forked"
               THEN (IF c.inputFD \in DOMAIN c.fds THEN c.fds[c.inputFD] ELSE Closed)
               ELSE StdSlots(c.fds)[STDIN_FD]
  IN IF ref.kind = "pipe_r" THEN ref.pipe ELSE 0

\* the processes of the stages before stage s of a Command have terminated
UpstreamTerminated(cmd, s) ==
  \A t \in 1..(s - 1) :
    \A j \in DOMAIN procs :
      procs[j].pid = cmd.simpleCommands[t].pid => procs[j].state \in {"zombie", "reaped"}

C36_FailedParseLeavesFiles ==
  (stack = <<>> /\ commandChain = "NULL") => fs = InitialFiles

\* C37: a line of builtins with redirected streams leaves the control
\* process with the descriptors it had before the line: after a line without
\* pipes all of whose handlers were pwd and returned 0, the standard streams
\* alone are open
C37_BuiltinsKeepDescriptorTable ==
  (/\ pc = "done" /\ stack = <<>>
   /\ invoked # <<>> /\ pipes = <<>>
   /\ \A k \in DOMAIN invoked : invoked[k].handler = "pwd" /\ invoked[k].status = 0)
    => DOMAIN fdTable = {STDIN_FD, STDOUT_FD, STDERR_FD}

====
